---- MODULE Spec2Model ----
(***************************************************************************)
(* Model of the mason2 read simulator (extras/apps/mason2/                 *)
(* mason_simulator.cpp): the MD-string construction, the alignment record  *)
(* builders and the distribute / simulate / join pipeline.                 *)
(*                                                                         *)
(* Specifications:                                                         *)
(*   SpecMD    getCigarString + getMDString2 over bounded gapped pairs     *)
(*   SpecBuild SingleEndRecordBuilder / PairedEndRecordBuilder on the      *)
(*             reads of one fragment                                       *)
(*   SpecNM    the score-to-NM conversion of _alignAndSetCigar             *)
(*   Spec      MasonSimulatorApp::_simulateReads: distribute, simulate     *)
(*             round by round with parallel workers, join                  *)
(*   SpecRun   the rounds of one bucket with one worker, on contigs        *)
(*             around the smallest fragment size, with the I/O failures    *)
(*             the program throws on, up to the end of the process         *)
(***************************************************************************)
EXTENDS Integers, Sequences, FiniteSets, TLC

VARIABLES
    mdPc,        \* position in _alignAndSetCigar: "gapped" | "cigar" | "md"
    gaps1,       \* gapsContig: the gapped reference infix
    gaps2,       \* gapsRead: the gapped read
    mdCigar,     \* record.cigar as written by getCigarString
    md,          \* mdString as written by getMDString2
    \* --- one fragment of ReadSimulatorThread::run with buildAlignments ---
    bPc,         \* "start" | "simulated" | "built"
    bPaired,     \* options->seqOptions.simulateMatePairs
    bucket,      \* the materialized (rID, hID): names, PositionMap
    infos,       \* infos[i] (, infos[i + 1])
    seqs,        \* seqs[i] (, seqs[i + 1])
    quals,       \* quals[i] (, quals[i + 1])
    simOut,      \* what the sequencing simulator emitted, kept for reference
    records,     \* alignmentRecords[i] (, alignmentRecords[i + 1])
    bAln,        \* per record: the interval and alignment the builder used
    \* --- the NM tag of one alignment, _alignAndSetCigar lines 229-230 ---
    nmPc,        \* "aligned" | "scored" | "converted"
    nmAlignment, \* the optimal alignment: mismatch count and gap run lengths
    nmScore,     \* the value globalAlignment returned
    nmEditDistance,  \* editDistance after line 230
    \* --- MasonSimulatorApp ---
    options,     \* MasonSimulatorOptions: the fields the pipeline reads
    rngPicks,    \* the pairs contigPicker.pick() yields for the seeded rng
    pc,          \* position in _simulateReads
    nextOrdinal, \* i of the distribute loop
    fragmentIdFiles,  \* fragmentIdSplitter.files: ordinals per bucket
    fragmentIdPos,    \* read offset of each fragmentIdSplitter file
    nextBucket,  \* how many pairs vcfMat.materializeNext has yielded
    curRID,      \* rID of _simulateReadsDoSimulation: current reference id
    curHID,      \* hID of _simulateReadsDoSimulation: current haplotype id
    contigFragmentCount,  \* number of ordinals read for the current bucket
    doBreak,     \* set in a round in which some worker read nothing
    threads,     \* the ReadSimulatorThread objects, by tID
    finished,    \* workers of the team whose run has returned this round
    fragmentFiles,    \* fragmentSplitter.files: FASTQ records per bucket
    alignmentFiles,   \* alignmentSplitter.files: SAM records per bucket
    fragmentPos,      \* offset of each fragmentSplitter file
    alignmentPos,     \* offset of each alignmentSplitter file
    outSeqsLeft,      \* final left / single-end FASTQ
    outSeqsRight,     \* final right FASTQ
    outBamStream,     \* final SAM
    reported,    \* the fragment counts printed per bucket (line 865)
    loadLog,     \* history: every ordinal loaded, with worker, bucket, round
    round,       \* history: rounds started for the current bucket
    \* --- one bucket of _simulateReadsDoSimulation, one worker ---
    runPc,       \* "materialized" | "load" | "parallel" | "write" | "end"
                 \* | "joined" | "exited" | "terminated" | "crashed"
    runContigLength,  \* length(seq) of the materialized contig
    runFile,     \* the ordinals of the bucket's file not read yet
    runThread,   \* threads[0]
    runBreak,    \* doBreak of the round
    runFragmentFile,  \* the FASTQ records written for the bucket
    runPastEnd,  \* history: fragments[i] was read at i >= length(fragments)
    runSpill,    \* the spill files of the three IdSplitters
    runError,    \* what() of the MasonIOException in flight, or "none"
    runOutput    \* outSeqsLeft (, outSeqsRight) as the join wrote them

varsMD == <<mdPc, gaps1, gaps2, mdCigar, md>>

varsBuild == <<bPc, bPaired, bucket, infos, seqs, quals, simOut, records, bAln>>

varsNM == <<nmPc, nmAlignment, nmScore, nmEditDistance>>

varsPipe ==
    <<options, rngPicks, pc, nextOrdinal, fragmentIdFiles, fragmentIdPos,
      nextBucket, curRID, curHID, contigFragmentCount, doBreak, threads, finished,
      fragmentFiles, alignmentFiles, fragmentPos, alignmentPos, outSeqsLeft,
      outSeqsRight, outBamStream, reported, loadLog, round>>

varsRun ==
    <<runPc, runContigLength, runFile, runThread, runBreak, runFragmentFile,
      runPastEnd, runSpill, runError, runOutput>>

vars == <<varsMD, varsBuild, varsNM, varsPipe, varsRun>>

\* ------------------------------------------------------------------------
\* Bounds
\* ------------------------------------------------------------------------

\* Longest gapped pair (number of alignment columns) fed to getMDString2.
MaxCols == 4

\* Bases that occur in the bounded gapped pairs.
MDAlphabet == {"A", "C"}

\* ------------------------------------------------------------------------
\* Sequences
\* ------------------------------------------------------------------------

\* The gap character of a Gaps row.
GAP == "-"

RECURSIVE Ungap(_)
\* source(gaps): the row without its gap characters.
Ungap(g) ==
    IF g = <<>> THEN <<>>
    ELSE IF Head(g) = GAP THEN Ungap(Tail(g))
    ELSE <<Head(g)>> \o Ungap(Tail(g))

Digit(d) ==
    CASE d = 0 -> "0" [] d = 1 -> "1" [] d = 2 -> "2" [] d = 3 -> "3"
      [] d = 4 -> "4" [] d = 5 -> "5" [] d = 6 -> "6" [] d = 7 -> "7"
      [] d = 8 -> "8" [] d = 9 -> "9"

RECURSIVE ToDecimal(_)
\* std::stringstream num; num << numOps; the decimal digits of n.
ToDecimal(n) ==
    IF n < 10 THEN <<Digit(n)>>
    ELSE ToDecimal(n \div 10) \o <<Digit(n % 10)>>

\* ------------------------------------------------------------------------
\* getCigarString (seqan/bam_io), as used at line 232
\* ------------------------------------------------------------------------

\* The CIGAR operation of one alignment column.
CigarOp(c1, c2) ==
    IF c1 = GAP THEN "I" ELSE IF c2 = GAP THEN "D" ELSE "M"

RECURSIVE CigarLoop(_, _, _, _)
CigarLoop(g1, g2, i, acc) ==
    IF i > Len(g1) \/ i > Len(g2) THEN acc
    ELSE LET op == CigarOp(g1[i], g2[i])
             n  == Len(acc)
         IN  IF n > 0 /\ acc[n].operation = op
             THEN CigarLoop(g1, g2, i + 1,
                            [acc EXCEPT ![n].count = acc[n].count + 1])
             ELSE CigarLoop(g1, g2, i + 1,
                            Append(acc, [operation |-> op, count |-> 1]))

\* The run-length encoded CIGAR of a gapped pair.
getCigarString(g1, g2) == CigarLoop(g1, g2, 1, <<>>)

\* ------------------------------------------------------------------------
\* getMDString2 (lines 1118-1185)
\* ------------------------------------------------------------------------

\* Loop state before the first column (lines 1133-1136).
MDStart == [md |-> <<>>, lastOp |-> " ", numOps |-> 0]

\* The operation of a column that is not gapped on the reference
\* (lines 1140-1149).
MDOp(x1, x2) ==
    IF x2 = GAP THEN "D" ELSE IF x1 = x2 THEN "M" ELSE "R"

\* "append match run" (lines 1152-1162): on a change of operation the count
\* of a finished match run is written and lastOp becomes op.
MDAppendMatchRun(st, op) ==
    IF st.lastOp # op
    THEN [md     |-> IF st.lastOp = "M" THEN st.md \o ToDecimal(st.numOps)
                     ELSE st.md,
          lastOp |-> op,
          numOps |-> 0]
    ELSE st

\* A variant that drops the reference base of a deleted column.
MDAppendRefChar_NoDeleted(st, prevOp, op, x1) ==
    IF op = "R" THEN [st EXCEPT !.md = st.md \o <<x1>>] ELSE st

\* "append deleted/replaced reference character" (lines 1165-1174).  The
\* tests of lines 1168 and 1171 read lastOp after line 1161 has set it to
\* op; prevOp, the operation of the column before, is not read.
MDAppendRefChar(st, prevOp, op, x1) ==
    IF op # "M"
    THEN [st EXCEPT !.md =
            st.md
            \o (IF op = "D" /\ st.lastOp # "D" THEN <<"^">> ELSE <<>>)
            \o (IF op = "R" /\ st.lastOp = "D" THEN <<"0">> ELSE <<>>)
            \o <<x1>>]
    ELSE st

\* An iteration in which a column gapped on the reference closes the
\* match run it lies in.
MDStep_InsertionEndsRun(st, x1, x2) ==
    IF x1 = GAP THEN MDAppendMatchRun(st, "I")
    ELSE LET op == MDOp(x1, x2)
             s1 == MDAppendMatchRun(st, op)
             s2 == MDAppendRefChar(s1, st.lastOp, op, x1)
         IN  [s2 EXCEPT !.numOps = s2.numOps + 1]

\* One iteration of the loop of lines 1137-1177.
MDStep(st, x1, x2) ==
    IF x1 = GAP THEN st                                      \* line 1139
    ELSE LET op == MDOp(x1, x2)
             s1 == MDAppendMatchRun(st, op)
             s2 == MDAppendRefChar(s1, st.lastOp, op, x1)
         IN  [s2 EXCEPT !.numOps = s2.numOps + 1]            \* line 1176

RECURSIVE MDLoop(_, _, _, _)
MDLoop(g1, g2, i, st) ==
    IF i > Len(g1) \/ i > Len(g2) THEN st                    \* line 1137
    ELSE MDLoop(g1, g2, i + 1, MDStep(st, g1[i], g2[i]))

\* The MD string of a gapped pair.
getMDString2(g1, g2) ==
    LET st == MDLoop(g1, g2, 1, MDStart)
    IN  IF st.lastOp = "M" THEN st.md \o ToDecimal(st.numOps)  \* 1179-1184
        ELSE st.md

\* ------------------------------------------------------------------------
\* SpecMD: _alignAndSetCigar's two emitters on bounded gapped pairs
\* ------------------------------------------------------------------------

\* The columns a global alignment can hold: never gapped on both rows.
Columns ==
    { c \in (MDAlphabet \cup {GAP}) \X (MDAlphabet \cup {GAP}) :
        ~(c[1] = GAP /\ c[2] = GAP) }

ColumnSeqs == UNION { [1..n -> Columns] : n \in 0..MaxCols }

Row(cols, k) == [i \in 1..Len(cols) |-> cols[i][k]]

\* The variables of the record builders while they are not modelled.
IdleBuild ==
    /\ bPc = "off"
    /\ bPaired = FALSE
    /\ bucket = <<>>
    /\ infos = <<>>
    /\ seqs = <<>>
    /\ quals = <<>>
    /\ simOut = <<>>
    /\ records = <<>>
    /\ bAln = <<>>

\* The variables of the NM conversion while it is not modelled.
IdleNM ==
    /\ nmPc = "off"
    /\ nmAlignment = <<>>
    /\ nmScore = 0
    /\ nmEditDistance = 0

\* The variables of the pipeline while it is not modelled.
IdlePipe ==
    /\ options = <<>>
    /\ rngPicks = <<>>
    /\ pc = "off"
    /\ nextOrdinal = 0
    /\ fragmentIdFiles = <<>>
    /\ fragmentIdPos = <<>>
    /\ nextBucket = 0
    /\ curRID = 0
    /\ curHID = 0
    /\ contigFragmentCount = 0
    /\ doBreak = FALSE
    /\ threads = <<>>
    /\ finished = {}
    /\ fragmentFiles = <<>>
    /\ alignmentFiles = <<>>
    /\ fragmentPos = <<>>
    /\ alignmentPos = <<>>
    /\ outSeqsLeft = <<>>
    /\ outSeqsRight = <<>>
    /\ outBamStream = <<>>
    /\ reported = <<>>
    /\ loadLog = <<>>
    /\ round = 0

\* The variables of the one-worker rounds while they are not modelled.
IdleRun ==
    /\ runPc = "off"
    /\ runContigLength = 0
    /\ runFile = <<>>
    /\ runThread = <<>>
    /\ runBreak = FALSE
    /\ runFragmentFile = <<>>
    /\ runPastEnd = FALSE
    /\ runSpill = "closed"
    /\ runError = "none"
    /\ runOutput = <<>>

\* The variables of the MD emitters while they are not modelled.
IdleMD ==
    /\ mdPc = "off"
    /\ gaps1 = <<>>
    /\ gaps2 = <<>>
    /\ mdCigar = <<>>
    /\ md = <<>>

InitMD ==
    /\ IdleBuild
    /\ IdleNM
    /\ IdlePipe
    /\ IdleRun
    /\ mdPc = "gapped"
    /\ \E cols \in ColumnSeqs :
         /\ gaps1 = Row(cols, 1)
         /\ gaps2 = Row(cols, 2)
    /\ mdCigar = <<>>
    /\ md = <<>>

\* line 232
EmitCigar ==
    /\ mdPc = "gapped"
    /\ mdCigar' = getCigarString(gaps1, gaps2)
    /\ mdPc' = "cigar"
    /\ UNCHANGED <<gaps1, gaps2, md>>
    /\ UNCHANGED <<varsBuild, varsNM, varsPipe, varsRun>>

\* line 233
EmitMD ==
    /\ mdPc = "cigar"
    /\ md' = getMDString2(gaps1, gaps2)
    /\ mdPc' = "md"
    /\ UNCHANGED <<gaps1, gaps2, mdCigar>>
    /\ UNCHANGED <<varsBuild, varsNM, varsPipe, varsRun>>

NextMD == EmitCigar \/ EmitMD

SpecMD == InitMD /\ [][NextMD]_vars

\* ------------------------------------------------------------------------
\* Reading an MD string back (used by the claims only)
\* ------------------------------------------------------------------------

IsDigit(c) == c \in {"0", "1", "2", "3", "4", "5", "6", "7", "8", "9"}

DigitValue(c) ==
    CASE c = "0" -> 0 [] c = "1" -> 1 [] c = "2" -> 2 [] c = "3" -> 3
      [] c = "4" -> 4 [] c = "5" -> 5 [] c = "6" -> 6 [] c = "7" -> 7
      [] c = "8" -> 8 [] c = "9" -> 9

RECURSIVE MDItems(_, _, _)
\* The MD string as one item per reference position: "=" for a position of
\* a match run, the reference base for a mismatched or deleted position.
\* num is the value of the digits read so far, -1 when none is pending.
MDItems(s, i, num) ==
    LET flush == IF num > 0 THEN [k \in 1..num |-> "="] ELSE <<>>
    IN  IF i > Len(s) THEN flush
        ELSE IF IsDigit(s[i])
             THEN MDItems(s, i + 1,
                          (IF num < 0 THEN 0 ELSE num * 10) + DigitValue(s[i]))
        ELSE IF s[i] = "^" THEN flush \o MDItems(s, i + 1, -1)
        ELSE flush \o <<s[i]>> \o MDItems(s, i + 1, -1)

RECURSIVE ExpandCigar(_)
ExpandCigar(cigar) ==
    IF cigar = <<>> THEN <<>>
    ELSE [k \in 1..Head(cigar).count |-> Head(cigar).operation]
         \o ExpandCigar(Tail(cigar))

RECURSIVE DecodeLoop(_, _, _, _, _)
\* Walk the CIGAR columns: ops from index c, MD items from index m, read
\* from index q.  A position the MD string cannot supply decodes to "?".
DecodeLoop(ops, items, read, c, mq) ==
    IF c > Len(ops) THEN
        IF mq[1] > Len(items) THEN <<>> ELSE <<"?">>
    ELSE IF ops[c] = "I" THEN
        DecodeLoop(ops, items, read, c + 1, <<mq[1], mq[2] + 1>>)
    ELSE IF mq[1] > Len(items) THEN <<"?">>
    ELSE IF ops[c] = "D" THEN
        <<(IF items[mq[1]] = "=" THEN "?" ELSE items[mq[1]])>>
        \o DecodeLoop(ops, items, read, c + 1, <<mq[1] + 1, mq[2]>>)
    ELSE
        <<(IF items[mq[1]] = "="
           THEN (IF mq[2] > Len(read) THEN "?" ELSE read[mq[2]])
           ELSE items[mq[1]])>>
        \o DecodeLoop(ops, items, read, c + 1, <<mq[1] + 1, mq[2] + 1>>)

\* The reference infix that an MD string, a read and a CIGAR describe.
DecodeMD(mdStr, read, cigar) ==
    DecodeLoop(ExpandCigar(cigar), MDItems(mdStr, 1, -1), read, 1, <<1, 1>>)

\* Whether column i of the gapped pair is a deletion / a mismatch.
IsDelCol(i) == gaps1[i] # GAP /\ gaps2[i] = GAP
IsMismatchCol(i) == gaps1[i] # GAP /\ gaps2[i] # GAP /\ gaps1[i] # gaps2[i]

\* C8: the MD string written by getMDString2, read back against the read
\* and the CIGAR of the same gapped pair, yields the reference infix the
\* read was aligned to, for every gapped pair within the bounds.
C8_MDReconstructsReference ==
    mdPc = "md" => DecodeMD(md, Ungap(gaps2), mdCigar) = Ungap(gaps1)

\* C8 witness: a deletion directly followed by a mismatch, and elsewhere a
\* mismatch directly followed by a deletion or by another mismatch.
C8_Witness ==
    /\ mdPc = "md"
    /\ \E i \in 1..(Len(gaps1) - 1) : IsDelCol(i) /\ IsMismatchCol(i + 1)
    /\ \E i \in 1..(Len(gaps1) - 1) :
         IsMismatchCol(i) /\ (IsDelCol(i + 1) \/ IsMismatchCol(i + 1))

\* The columns that write a reference base to the MD string, in order.
VariantCols == {i \in 1..Len(gaps1) : IsDelCol(i) \/ IsMismatchCol(i)}

\* The positions of the reference bases in the MD string.
BasePositions == {p \in 1..Len(md) : md[p] \in MDAlphabet}

\* The position in the MD string of the base written for column i.
BasePositionOf(i) ==
    CHOOSE p \in BasePositions :
        Cardinality({q \in BasePositions : q <= p})
            = Cardinality({j \in VariantCols : j <= i})

\* Whether the last column before i that holds a reference base is a
\* deleted one.
AfterDeletion(i) ==
    \E j \in 1..(i - 1) :
        /\ IsDelCol(j)
        /\ \A k \in (j + 1)..(i - 1) : gaps1[k] = GAP

\* C22: in the MD string of getMDString2 the first deleted reference base
\* of every deletion run is preceded by '^'.
C22_CaretBeforeDeletion ==
    mdPc = "md" =>
        /\ Cardinality(BasePositions) = Cardinality(VariantCols)
        /\ \A i \in VariantCols :
             (IsDelCol(i) /\ ~AfterDeletion(i)) =>
                 /\ BasePositionOf(i) > 1
                 /\ md[BasePositionOf(i) - 1] = "^"

\* C23: in the MD string of getMDString2 a '0' stands between the last
\* deleted reference base of a deletion run and the reference base of a
\* mismatch column that directly follows the run.
C23_ZeroAfterDeletion ==
    mdPc = "md" =>
        /\ Cardinality(BasePositions) = Cardinality(VariantCols)
        /\ \A i \in VariantCols :
             (IsMismatchCol(i) /\ AfterDeletion(i)) =>
                 /\ BasePositionOf(i) > 2
                 /\ md[BasePositionOf(i) - 1] = "0"
                 /\ md[BasePositionOf(i) - 2] \in MDAlphabet

\* A count or a reference base of an MD string.
CountToken(n) == [kind |-> "count", count |-> n, base |-> ""]
BaseToken(c) == [kind |-> "base", count |-> 0, base |-> c]

RECURSIVE MDTokens(_, _, _)
\* The counts and the reference bases of the MD string s from index i on,
\* in order; '^' and a count of zero separate bases and are left out.  num
\* is the value of the digits read so far, -1 when none is pending.
MDTokens(s, i, num) ==
    LET flush == IF num > 0 THEN <<CountToken(num)>> ELSE <<>>
    IN  IF i > Len(s) THEN flush
        ELSE IF IsDigit(s[i])
             THEN MDTokens(s, i + 1,
                           (IF num < 0 THEN 0 ELSE num * 10) + DigitValue(s[i]))
        ELSE IF s[i] = "^" THEN flush \o MDTokens(s, i + 1, -1)
        ELSE flush \o <<BaseToken(s[i])>> \o MDTokens(s, i + 1, -1)

RECURSIVE MatchRuns(_, _, _, _)
\* The gapped pair from column i on as seen on the reference: one count
\* for each maximal run of matching columns among the columns that hold a
\* reference base, one base for each other such column.  run is the
\* number of matching columns of the run that is open at column i.
MatchRuns(g1, g2, i, run) ==
    LET flush == IF run > 0 THEN <<CountToken(run)>> ELSE <<>>
    IN  IF i > Len(g1) THEN flush
        ELSE IF g1[i] = GAP THEN MatchRuns(g1, g2, i + 1, run)
        ELSE IF g1[i] = g2[i] THEN MatchRuns(g1, g2, i + 1, run + 1)
        ELSE flush \o <<BaseToken(g1[i])>> \o MatchRuns(g1, g2, i + 1, 0)

\* Whether column i is gapped on the reference / a match.
IsInsCol(i) == gaps1[i] = GAP
IsMatchCol(i) == gaps1[i] # GAP /\ gaps1[i] = gaps2[i]

\* C32: columns gapped on the reference write nothing to the MD string of
\* getMDString2 and do not close a match run: the counts of the MD string
\* are, in order and in their places between the reference bases, the
\* numbers of matching columns between consecutive mismatched or deleted
\* columns, insertions inside a run not dividing it, and a run that ends
\* the alignment is written as the last count.
C32_InsertionsKeepMatchRun ==
    mdPc = "md" => MDTokens(md, 1, -1) = MatchRuns(gaps1, gaps2, 1, 0)

\* C32 witness: a mismatched or deleted column, then a match run that has
\* an insertion between two of its columns and ends the alignment, the MD
\* string ending with the count 2.
C32_Witness ==
    /\ mdPc = "md"
    /\ VariantCols # {}
    /\ \E i \in 1..(Len(gaps1) - 2) :
         /\ IsMatchCol(i) /\ IsInsCol(i + 1) /\ IsMatchCol(i + 2)
         /\ i + 2 = Len(gaps1)
         /\ \A j \in VariantCols : j < i
    /\ md # <<>> /\ md[Len(md)] = "2"

\* ------------------------------------------------------------------------
\* Alignment records (seqan::BamAlignmentRecord) and simulation infos
\* ------------------------------------------------------------------------

INVALID_REFID == -1
INVALID_POS == -1
INVALID_LEN == 0

\* clear(record)
ClearedRecord ==
    [qName |-> <<>>, flag |-> {}, rID |-> INVALID_REFID,
     beginPos |-> INVALID_POS, cigar |-> <<>>, rNextId |-> INVALID_REFID,
     pNext |-> INVALID_POS, tLen |-> INVALID_LEN, seq |-> <<>>,
     qual |-> <<>>, tags |-> <<>>]

\* setTagValue(tagsDict, key, value); tags is the list of (key, value).
setTagValue(tags, key, value) ==
    IF \E k \in 1..Len(tags) : tags[k][1] = key
    THEN [k \in 1..Len(tags) |->
            IF tags[k][1] = key THEN <<key, value>> ELSE tags[k]]
    ELSE Append(tags, <<key, value>>)

HasTag(r, key) == \E k \in 1..Len(r.tags) : r.tags[k][1] = key

TagValue(r, key) ==
    r.tags[CHOOSE k \in 1..Len(r.tags) : r.tags[k][1] = key][2]

RECURSIVE CigarLength(_, _)
\* The summed counts of the elements of cigar whose operation is in ops.
CigarLength(cigar, ops) ==
    IF cigar = <<>> THEN 0
    ELSE (IF Head(cigar).operation \in ops THEN Head(cigar).count ELSE 0)
         + CigarLength(Tail(cigar), ops)

\* _getLengthInRef(cigar, len): reference positions consumed (M and D).
getLengthInRef(cigar) == CigarLength(cigar, {"M", "D"})

\* Query positions consumed (M and I).
QueryLength(cigar) == CigarLength(cigar, {"M", "I"})

Reverse(s) == [k \in 1..Len(s) |-> s[Len(s) + 1 - k]]

Complement(c) ==
    CASE c = "A" -> "T" [] c = "C" -> "G" [] c = "G" -> "C" [] c = "T" -> "A"
      [] OTHER -> c

reverseComplement(s) == [k \in 1..Len(s) |-> Complement(s[Len(s) + 1 - k])]

\* ------------------------------------------------------------------------
\* PositionMap
\* ------------------------------------------------------------------------

\* The interval of the map that holds position pos of the haplotype.
getGenomicInterval(pm, pos) ==
    LET k == CHOOSE k \in 1..Len(pm.svIntervals) :
                 /\ pm.svIntervals[k].svBeginPos <= pos
                 /\ pos < pm.svIntervals[k].svEndPos
    IN  pm.svIntervals[k]

\* Whether a breakpoint lies strictly inside [svBeginPos, svEndPos).
overlapsWithBreakpoint(pm, svBeginPos, svEndPos) ==
    \E p \in pm.svBreakpoints : svBeginPos < p /\ p < svEndPos

\* From the haplotype to small-variant coordinates; first > second on an
\* inverted interval.
toSmallVarInterval(pm, svBeginPos, svEndPos) ==
    LET gi == getGenomicInterval(pm, svBeginPos)
    IN  IF gi.strand = "+"
        THEN <<gi.smallVarBeginPos + (svBeginPos - gi.svBeginPos),
               gi.smallVarBeginPos + (svEndPos - gi.svBeginPos)>>
        ELSE <<gi.smallVarEndPos - (svBeginPos - gi.svBeginPos),
               gi.smallVarEndPos - (svEndPos - gi.svBeginPos)>>

\* From small-variant coordinates to the original reference.
toOriginalInterval(pm, smallVarBeginPos, smallVarEndPos) ==
    <<pm.smallVarToOrig[smallVarBeginPos + 1],
      pm.smallVarToOrig[smallVarEndPos + 1]>>

\* ------------------------------------------------------------------------
\* globalAlignment (banded, affine) of the reference infix and the read
\* ------------------------------------------------------------------------

\* seqan::Score<int, seqan::Simple> sScheme(0, -1000, -1001, -1002)
ScoreMatch == 0
ScoreMismatch == -1000
ScoreGapOpen == -1001
ScoreGapExtend == -1002

\* int buffer = 3 of _alignAndSetCigar
BandBuffer == 3

Max(a, b) == IF a >= b THEN a ELSE b
Min(a, b) == IF a <= b THEN a ELSE b

\* Whether cell (a, b) lies on the diagonals lDiag..uDiag.
InBand(a, b, lDiag, uDiag) == lDiag <= a - b /\ a - b <= uDiag

\* The alignments in paths, each with column c put in front.
Prepend(c, paths) == { <<c>> \o p : p \in paths }

RECURSIVE AlignPaths(_, _, _, _, _, _)
\* The alignments of ref[i+1..] and read[j+1..] whose cells stay on the
\* diagonals lDiag..uDiag, each a sequence of columns.
AlignPaths(ref, read, i, j, lDiag, uDiag) ==
    IF i = Len(ref) /\ j = Len(read) THEN {<<>>}
    ELSE
      (IF i < Len(ref) /\ j < Len(read)
       THEN Prepend(<<ref[i + 1], read[j + 1]>>,
                    AlignPaths(ref, read, i + 1, j + 1, lDiag, uDiag))
       ELSE {})
      \cup
      (IF i < Len(ref) /\ InBand(i + 1, j, lDiag, uDiag)
       THEN Prepend(<<ref[i + 1], GAP>>,
                    AlignPaths(ref, read, i + 1, j, lDiag, uDiag))
       ELSE {})
      \cup
      (IF j < Len(read) /\ InBand(i, j + 1, lDiag, uDiag)
       THEN Prepend(<<GAP, read[j + 1]>>,
                    AlignPaths(ref, read, i, j + 1, lDiag, uDiag))
       ELSE {})

RECURSIVE AlignScore(_, _)
\* The score of the columns cols[k..]: a gap column opens a gap unless the
\* column before it is gapped on the same row.
AlignScore(cols, k) ==
    IF k > Len(cols) THEN 0
    ELSE
      LET c == cols[k]
          extends == k > 1 /\ ((c[1] = GAP /\ cols[k - 1][1] = GAP)
                               \/ (c[2] = GAP /\ cols[k - 1][2] = GAP))
          s == IF c[1] = GAP \/ c[2] = GAP
               THEN (IF extends THEN ScoreGapExtend ELSE ScoreGapOpen)
               ELSE IF c[1] = c[2] THEN ScoreMatch ELSE ScoreMismatch
      IN  s + AlignScore(cols, k + 1)

\* The optimal alignments: globalAlignment leaves one of them in the two
\* Gaps objects and returns its score.
globalAlignment(ref, read, lDiag, uDiag) ==
    LET all    == AlignPaths(ref, read, 0, 0, lDiag, uDiag)
        scored == { <<a, AlignScore(a, 1)>> : a \in all }
    IN  { [gapsContig |-> Row(x[1], 1), gapsRead |-> Row(x[1], 2),
           score |-> x[2]] :
          x \in { y \in scored : \A z \in scored : z[2] <= y[2] } }

\* C++ integer division: the quotient truncated toward zero.
CppDiv(a, b) ==
    LET abs(x) == IF x < 0 THEN -x ELSE x
        q == abs(a) \div abs(b)
    IN  IF (a < 0) = (b < 0) THEN q ELSE -q

\* editDistance /= -1000 (line 230)
ScoreToEditDistance(score) == CppDiv(score, -1000)

SubSeqFrom0(s, beginPos, endPos) ==
    [k \in 1..(endPos - beginPos) |-> s[beginPos + k]]

\* ------------------------------------------------------------------------
\* SingleEndRecordBuilder (lines 69-249)
\* ------------------------------------------------------------------------

\* The reference sequence of contig rID (readSequence, line 816).
RefSeq(rID) ==
    IF rID = 0 THEN <<"A", "C", "G", "T", "A", "C">>
    ELSE <<"A", "C", "G", "T">>

\* _initialize (lines 127-141): the cleared record.
InitializeRecord ==
    [ClearedRecord EXCEPT !.flag = {}, !.rNextId = INVALID_REFID,
                          !.pNext = INVALID_POS, !.tLen = INVALID_LEN]

\* _initialize (lines 139-140): the info after the builder has stamped it.
InitializeInfo(info, bk) == [info EXCEPT !.rID = bk.rID, !.hID = bk.hID]

\* A variant that looks at the kind of the interval only.
ReadIsUnmapped_InsertedOnly(pm, info) ==
    getGenomicInterval(pm, info.beginPos).kind = "INSERTED"

\* build (lines 107-120): whether the record is filled as unaligned.
ReadIsUnmapped(pm, info) ==
    LET len == getLengthInRef(info.cigar)
        overlaps == overlapsWithBreakpoint(pm, info.beginPos, info.beginPos + len)
    IN  overlaps \/ getGenomicInterval(pm, info.beginPos).kind = "INSERTED"

\* _fillUnaligned with the two reasons exchanged.
FillUnaligned_ReasonsExchanged(record, b, bk, overlaps) ==
    LET t1 == setTagValue(record.tags, "uR", IF overlaps THEN "I" ELSE "B")
        t2 == setTagValue(t1, "oR", bk.refName)
        t3 == setTagValue(t2, "oP", b.info.beginPos)
        t4 == setTagValue(t3, "oH", bk.hID + 1)
        t5 == setTagValue(t4, "oS", IF b.info.isForward THEN "F" ELSE "R")
    IN  [record EXCEPT !.flag = {"UNMAPPED"}, !.rID = INVALID_REFID,
                       !.beginPos = INVALID_POS, !.seq = b.seq,
                       !.qual = b.qual, !.tags = t5]

\* _fillUnaligned (lines 144-163); b is the builder's view of the worker
\* buffers [info, seq, qual].
FillUnaligned(record, b, bk, overlaps) ==
    LET t1 == setTagValue(record.tags, "uR", IF overlaps THEN "B" ELSE "I")
        t2 == setTagValue(t1, "oR", bk.refName)
        t3 == setTagValue(t2, "oP", b.info.beginPos)
        t4 == setTagValue(t3, "oH", bk.hID + 1)
        t5 == setTagValue(t4, "oS", IF b.info.isForward THEN "F" ELSE "R")
    IN  [record EXCEPT !.flag = {"UNMAPPED"}, !.rID = INVALID_REFID,
                       !.beginPos = INVALID_POS, !.seq = b.seq,
                       !.qual = b.qual, !.tags = t5]

\* _flipState (lines 200-208)
FlipState(b, doFlip) ==
    IF doFlip
    THEN [b EXCEPT !.seq = reverseComplement(b.seq),
                   !.qual = Reverse(b.qual),
                   !.info.cigar = Reverse(b.info.cigar)]
    ELSE b

\* _fillAligned (lines 170-175): the interval on the original reference and
\* whether the haplotype runs against it.
AlignedInterval(pm, info, len) ==
    LET sv   == toSmallVarInterval(pm, info.beginPos, info.beginPos + len)
        isRC == sv[1] > sv[2]
        svn  == IF isRC THEN <<sv[2], sv[1]>> ELSE sv
        orig == toOriginalInterval(pm, svn[1], svn[2])
    IN  [isRC |-> isRC, first |-> orig[1], second |-> orig[2]]

\* A variant that flags every reverse-strand read.
SetRCFlag_StrandOnly(record, info, isRC) ==
    IF ~info.isForward THEN [record EXCEPT !.flag = @ \cup {"RC"}] ELSE record

\* _fillAligned (lines 179-181)
SetRCFlag(record, info, isRC) ==
    IF info.isForward = isRC THEN [record EXCEPT !.flag = @ \cup {"RC"}]
    ELSE record

\* A variant that aligns against the haplotype interval of the read.
ContigInfix_Haplotype(refSeq, info, beginPos, endPos) ==
    SubSeqFrom0(refSeq, Min(info.beginPos, Len(refSeq)),
                Min(info.beginPos + getLengthInRef(info.cigar), Len(refSeq)))

\* _alignAndSetCigar (lines 219-220): TContigInfix contigInfix(refSeq,
\* beginPos, endPos).
ContigInfix(refSeq, info, beginPos, endPos) ==
    SubSeqFrom0(refSeq, beginPos, endPos)

\* _alignAndSetCigar (lines 211-234): every outcome globalAlignment can
\* leave, each with the CIGAR, the MD string and the edit distance.
AlignAndSetCigar(refSeq, info, seq, beginPos, endPos) ==
    LET contigInfix == ContigInfix(refSeq, info, beginPos, endPos)
        uDiag == Max(Len(contigInfix) - Len(seq), 0) + BandBuffer
        lDiag == -Max(Len(seq) - Len(contigInfix), 0) - BandBuffer
    IN  { [cigar |-> getCigarString(a.gapsContig, a.gapsRead),
           mdString |-> getMDString2(a.gapsContig, a.gapsRead),
           editDistance |-> ScoreToEditDistance(a.score),
           gapsContig |-> a.gapsContig, gapsRead |-> a.gapsRead,
           score |-> a.score] :
          a \in globalAlignment(contigInfix, seq, lDiag, uDiag) }

\* The outcome of a build that aligns nothing.
NoAlignment ==
    [cigar |-> <<>>, mdString |-> <<>>, editDistance |-> 0,
     gapsContig |-> <<>>, gapsRead |-> <<>>, score |-> 0]

\* The alignment outcomes open to a build of the read in b.
AlignmentChoices(b, bk) ==
    IF ReadIsUnmapped(bk.posMap, b.info) THEN {NoAlignment}
    ELSE LET iv == AlignedInterval(bk.posMap, b.info, getLengthInRef(b.info.cigar))
             fl == FlipState(b, b.info.isForward = iv.isRC)
         IN  AlignAndSetCigar(RefSeq(bk.rID), fl.info, fl.seq, iv.first, iv.second)

\* _fillTags with the position of the record on the original reference
\* in oP.
FillTags_TranslatedPosition(record, info, bk, editDistance, mdString) ==
    LET t1 == setTagValue(record.tags, "NM", editDistance)
        t2 == setTagValue(t1, "MD", mdString)
        t3 == setTagValue(t2, "oR", bk.refName)
        t4 == setTagValue(t3, "oH", bk.hID + 1)
        t5 == setTagValue(t4, "oP", record.beginPos)
        t6 == setTagValue(t5, "oS", IF info.isForward THEN "F" ELSE "R")
    IN  [record EXCEPT !.tags = t6]

\* _fillTags (lines 237-248)
FillTags(record, info, bk, editDistance, mdString) ==
    LET t1 == setTagValue(record.tags, "NM", editDistance)
        t2 == setTagValue(t1, "MD", mdString)
        t3 == setTagValue(t2, "oR", bk.refName)
        t4 == setTagValue(t3, "oH", bk.hID + 1)
        t5 == setTagValue(t4, "oP", info.beginPos)
        t6 == setTagValue(t5, "oS", IF info.isForward THEN "F" ELSE "R")
    IN  [record EXCEPT !.tags = t6]

\* _fillAligned without the second _flipState.
FillAlignedFlipped_NotRestored(record, b1, bk, al, iv) ==
    [record |->
        FillTags([SetRCFlag(record, b1.info, iv.isRC)
                    EXCEPT !.cigar = al.cigar, !.rID = bk.rID,
                           !.beginPos = iv.first, !.seq = b1.seq,
                           !.qual = b1.qual],
                 b1.info, bk, al.editDistance, al.mdString),
     buffers |-> b1]

\* _fillAligned (lines 183-197): b1 holds the buffers after the flip of
\* line 177; the record is filled from them and the flip is undone.
FillAlignedFlipped(record, b1, bk, al, iv) ==
    [record |->
        FillTags([SetRCFlag(record, b1.info, iv.isRC)
                    EXCEPT !.cigar = al.cigar, !.rID = bk.rID,
                           !.beginPos = iv.first, !.seq = b1.seq,
                           !.qual = b1.qual],
                 b1.info, bk, al.editDistance, al.mdString),
     buffers |-> FlipState(b1, b1.info.isForward = iv.isRC)]      \* line 193

\* _fillAligned (lines 166-177) on the interval iv.
FillAlignedOn(record, b, bk, al, iv) ==
    FillAlignedFlipped(record, FlipState(b, b.info.isForward = iv.isRC),
                       bk, al, iv)

\* _fillAligned (lines 166-197) with the alignment outcome al; yields the
\* record and the worker buffers as the builder leaves them.
FillAligned(record, b, bk, len, al) ==
    FillAlignedOn(record, b, bk, al, AlignedInterval(bk.posMap, b.info, len))

\* build (lines 107-123) on the stamped buffers b0.
SingleEndFill(b0, bk, al) ==
    IF ReadIsUnmapped(bk.posMap, b0.info)
    THEN [record |->
            FillUnaligned(InitializeRecord, b0, bk,
                          overlapsWithBreakpoint(
                              bk.posMap, b0.info.beginPos,
                              b0.info.beginPos + getLengthInRef(b0.info.cigar))),
          buffers |-> b0]
    ELSE FillAligned(InitializeRecord, b0, bk, getLengthInRef(b0.info.cigar), al)

\* build (lines 103-124)
SingleEndBuild(b, bk, al) ==
    SingleEndFill([b EXCEPT !.info = InitializeInfo(b.info, bk)], bk, al)

\* ------------------------------------------------------------------------
\* PairedEndRecordBuilder (lines 259-541)
\* ------------------------------------------------------------------------

\* _fillUnaligned (lines 424-447)
PairedFillUnaligned(record, b, bk, overlaps) ==
    FillUnaligned(record, b, bk, overlaps)

\* _fillAligned (lines 464-499)
PairedFillAligned(record, b, bk, len, al) ==
    FillAligned(record, b, bk, len, al)

\* build (lines 346-358): tLen of the left record when both mates are
\* mapped to the same contig.
TemplateLength(recordL, recordR, lenL, lenR) ==
    IF recordL.beginPos < recordR.beginPos
    THEN recordR.beginPos + lenR - recordL.beginPos
    ELSE recordL.beginPos + lenL - recordR.beginPos

\* Both mates mapped, each NEXT_RC taken from the record's own RC flag.
CompleteBothMapped_OwnStrand(rL, rR, tl) ==
    <<[rL EXCEPT !.flag = @ \cup {"ALL_PROPER"}
                          \cup (IF "RC" \in rL.flag THEN {"NEXT_RC"} ELSE {}),
                 !.tLen = tl, !.rNextId = rR.rID, !.pNext = rR.beginPos],
      [rR EXCEPT !.flag = @ \cup {"ALL_PROPER"}
                          \cup (IF "RC" \in rR.flag THEN {"NEXT_RC"} ELSE {}),
                 !.tLen = IF rL.rID = rR.rID THEN -tl ELSE INVALID_LEN,
                 !.rNextId = rL.rID, !.pNext = rL.beginPos]>>

\* build (lines 342-369): both mates mapped; rL and rR carry the flags of
\* lines 339-340.
CompleteBothMapped(rL, rR, tl) ==
    <<[rL EXCEPT !.flag = @ \cup {"ALL_PROPER"}
                          \cup (IF "RC" \in rR.flag THEN {"NEXT_RC"} ELSE {}),
                 !.tLen = tl, !.rNextId = rR.rID, !.pNext = rR.beginPos],
      [rR EXCEPT !.flag = @ \cup {"ALL_PROPER"}
                          \cup (IF "RC" \in rL.flag THEN {"NEXT_RC"} ELSE {}),
                 !.tLen = IF rL.rID = rR.rID THEN -tl ELSE INVALID_LEN,
                 !.rNextId = rL.rID, !.pNext = rL.beginPos]>>

\* The completion of a pair that leaves an unmapped mate without the
\* position of its mapped mate.
CompleteMates_NoPosition(rL, rR, unmappedL, unmappedR, lenL, lenR) ==
    IF ~unmappedL /\ ~unmappedR THEN
        CompleteBothMapped(rL, rR,
                           IF rL.rID = rR.rID
                           THEN TemplateLength(rL, rR, lenL, lenR)
                           ELSE INVALID_LEN)
    ELSE IF ~unmappedL /\ unmappedR THEN
        <<[rL EXCEPT !.flag = @ \cup {"NEXT_UNMAPPED"}, !.tLen = INVALID_LEN],
          [rR EXCEPT !.flag = @ \cup {"UNMAPPED"}, !.tLen = INVALID_LEN]>>
    ELSE IF unmappedL /\ ~unmappedR THEN
        <<[rL EXCEPT !.flag = @ \cup {"UNMAPPED"}, !.tLen = INVALID_LEN],
          [rR EXCEPT !.flag = @ \cup {"NEXT_UNMAPPED"}, !.tLen = INVALID_LEN]>>
    ELSE
        <<[rL EXCEPT !.flag = @ \cup {"UNMAPPED"}],
          [rR EXCEPT !.flag = @ \cup {"NEXT_UNMAPPED"}]>>

\* The completion of a pair that sets UNMAPPED on both records when one
\* mate is unmapped.
CompleteMates_BothFlagged(rL, rR, unmappedL, unmappedR, lenL, lenR) ==
    IF ~unmappedL /\ ~unmappedR THEN
        CompleteBothMapped(rL, rR,
                           IF rL.rID = rR.rID
                           THEN TemplateLength(rL, rR, lenL, lenR)
                           ELSE INVALID_LEN)
    ELSE IF ~unmappedL /\ unmappedR THEN
        <<[rL EXCEPT !.flag = @ \cup {"UNMAPPED", "NEXT_UNMAPPED"},
                     !.tLen = INVALID_LEN],
          [rR EXCEPT !.rID = rL.rID, !.beginPos = rL.beginPos,
                     !.flag = @ \cup {"UNMAPPED"}, !.tLen = INVALID_LEN]>>
    ELSE IF unmappedL /\ ~unmappedR THEN
        <<[rL EXCEPT !.rID = rR.rID, !.beginPos = rR.beginPos,
                     !.flag = @ \cup {"UNMAPPED"}, !.tLen = INVALID_LEN],
          [rR EXCEPT !.flag = @ \cup {"UNMAPPED", "NEXT_UNMAPPED"},
                     !.tLen = INVALID_LEN]>>
    ELSE
        <<[rL EXCEPT !.flag = @ \cup {"UNMAPPED"}],
          [rR EXCEPT !.flag = @ \cup {"NEXT_UNMAPPED"}]>>

\* build (lines 342-396) on the records that carry the flags of lines
\* 339-340.
CompleteMates(rL, rR, unmappedL, unmappedR, lenL, lenR) ==
    IF ~unmappedL /\ ~unmappedR THEN
        CompleteBothMapped(rL, rR,
                           IF rL.rID = rR.rID
                           THEN TemplateLength(rL, rR, lenL, lenR)
                           ELSE INVALID_LEN)
    ELSE IF ~unmappedL /\ unmappedR THEN
        <<[rL EXCEPT !.flag = @ \cup {"NEXT_UNMAPPED"}, !.tLen = INVALID_LEN],
          [rR EXCEPT !.rID = rL.rID, !.beginPos = rL.beginPos,
                     !.flag = @ \cup {"UNMAPPED"}, !.tLen = INVALID_LEN]>>
    ELSE IF unmappedL /\ ~unmappedR THEN
        <<[rL EXCEPT !.rID = rR.rID, !.beginPos = rR.beginPos,
                     !.flag = @ \cup {"UNMAPPED"}, !.tLen = INVALID_LEN],
          [rR EXCEPT !.flag = @ \cup {"NEXT_UNMAPPED"}, !.tLen = INVALID_LEN]>>
    ELSE
        <<[rL EXCEPT !.flag = @ \cup {"UNMAPPED"}],             \* 392, 394
          [rR EXCEPT !.flag = @ \cup {"NEXT_UNMAPPED"}]>>       \* 393, 395

\* The completion of a pair that marks both records as the first segment.
CompleteFlags_BothFirst(rL0, rR0, unmappedL, unmappedR, lenL, lenR) ==
    CompleteMates([rL0 EXCEPT !.flag = @ \cup {"FIRST", "MULTIPLE"}],
                  [rR0 EXCEPT !.flag = @ \cup {"FIRST", "MULTIPLE"}],
                  unmappedL, unmappedR, lenL, lenR)

\* build (lines 334-396): the flags, mate fields and tLen of the pair.
CompleteFlags(rL0, rR0, unmappedL, unmappedR, lenL, lenR) ==
    CompleteMates([rL0 EXCEPT !.flag = @ \cup {"FIRST", "MULTIPLE"}],
                  [rR0 EXCEPT !.flag = @ \cup {"LAST", "MULTIPLE"}],
                  unmappedL, unmappedR, lenL, lenR)

\* build (lines 324-332) for one mate, on its stamped buffers b0.
PairedFill(b0, bk, al) ==
    IF ReadIsUnmapped(bk.posMap, b0.info)
    THEN [record |->
            PairedFillUnaligned(InitializeRecord, b0, bk,
                                overlapsWithBreakpoint(
                                    bk.posMap, b0.info.beginPos,
                                    b0.info.beginPos + getLengthInRef(b0.info.cigar))),
          buffers |-> b0]
    ELSE PairedFillAligned(InitializeRecord, b0, bk,
                           getLengthInRef(b0.info.cigar), al)

\* build (lines 334-397) on the two filled mates fL and fR.
PairedComplete(fL, fR, pair) ==
    [records |-> pair, buffersL |-> fL.buffers, buffersR |-> fR.buffers]

\* build (lines 304-397) on the stamped buffers of the two mates.
PairedBuildStamped(bL0, bR0, fL, fR, bk) ==
    PairedComplete(fL, fR,
                   CompleteFlags(fL.record, fR.record,
                                 ReadIsUnmapped(bk.posMap, bL0.info),
                                 ReadIsUnmapped(bk.posMap, bR0.info),
                                 getLengthInRef(bL0.info.cigar),
                                 getLengthInRef(bR0.info.cigar)))

\* build (lines 302-397) once _initialize has stamped the infos.
PairedBuildFrom(bL0, bR0, bk, alL, alR) ==
    PairedBuildStamped(bL0, bR0, PairedFill(bL0, bk, alL),
                       PairedFill(bR0, bk, alR), bk)

\* build (lines 299-397)
PairedEndBuild(bL, bR, bk, alL, alR) ==
    PairedBuildFrom([bL EXCEPT !.info = InitializeInfo(bL.info, bk)],
                    [bR EXCEPT !.info = InitializeInfo(bR.info, bk)],
                    bk, alL, alR)

\* ------------------------------------------------------------------------
\* SpecBuild: the reads of one fragment, simulated and then built
\* ------------------------------------------------------------------------

\* Longest simulated read (query positions of info.cigar).
MaxReadLen == 2

\* The reads the sequencing simulator emits within the bounds.
ReadSeqs ==
    { s \in { <<"A">>, <<"C">>, <<"A", "C">>, <<"A", "A">>, <<"A", "C", "A">> } :
        Len(s) <= MaxReadLen }

NormalInterval(b, e, svb, sve, strand) ==
    [svBeginPos |-> b, svEndPos |-> e, smallVarBeginPos |-> svb,
     smallVarEndPos |-> sve, strand |-> strand, kind |-> "NORMAL"]

InsertedInterval(b, e) ==
    [svBeginPos |-> b, svEndPos |-> e, smallVarBeginPos |-> -1,
     smallVarEndPos |-> -1, strand |-> "+", kind |-> "INSERTED"]

\* A haplotype of contig 0 with small variants only: reference base 2 is
\* deleted and one base is inserted before reference base 4.
PosMapSmallVariants ==
    [length |-> 6,
     svIntervals |-> <<NormalInterval(0, 6, 0, 6, "+")>>,
     svBreakpoints |-> {},
     smallVarToOrig |-> <<0, 1, 3, 4, 4, 5, 6>>]

\* A haplotype of contig 1 with structural variants: [2, 4) is inverted and
\* [4, 6) is an insertion that the reference does not hold.
PosMapStructural ==
    [length |-> 6,
     svIntervals |-> <<NormalInterval(0, 2, 0, 2, "+"),
                       NormalInterval(2, 4, 2, 4, "-"),
                       InsertedInterval(4, 6)>>,
     svBreakpoints |-> {2, 4},
     smallVarToOrig |-> <<0, 1, 2, 3, 4>>]

\* The other haplotype of contig 1: two bases are inserted between
\* reference bases 1 and 2.
PosMapInsertion ==
    [length |-> 6,
     svIntervals |-> <<NormalInterval(0, 2, 0, 2, "+"),
                       InsertedInterval(2, 4),
                       NormalInterval(4, 6, 2, 4, "+")>>,
     svBreakpoints |-> {2, 4},
     smallVarToOrig |-> <<0, 1, 2, 3, 4>>]

\* What VcfMaterializer::materializeNext yields for the haplotypes.
MaterializedBuckets ==
    { [rID |-> 0, hID |-> 0, refName |-> "chr1", posMap |-> PosMapSmallVariants],
      [rID |-> 1, hID |-> 0, refName |-> "chr2", posMap |-> PosMapInsertion],
      [rID |-> 1, hID |-> 1, refName |-> "chr2", posMap |-> PosMapStructural] }

El(op, n) == [operation |-> op, count |-> n]

\* The shapes of info.cigar the simulator emits within the bounds.
InfoCigars ==
    { c \in { <<El("M", 1)>>, <<El("M", 2)>>, <<El("M", 1), El("D", 1), El("M", 1)>>,
              <<El("M", 1), El("I", 1)>>, <<El("M", 3)>>,
              <<El("M", 1), El("I", 1), El("M", 1)>> } :
        QueryLength(c) <= MaxReadLen }

\* What simulateSingleEnd can leave in (seqs[i], quals[i], infos[i]) for a
\* fragment of the haplotype: the cigar consumes |seq| query positions and
\* stays inside the haplotype.
SimulatorOutputs(bk) ==
    { [info |-> [rID |-> INVALID_REFID, hID |-> -1, beginPos |-> p,
                 isForward |-> f, cigar |-> c],
       seq |-> s,
       qual |-> [k \in 1..QueryLength(c) |-> 30 + k]] :
      <<p, f, c, s>> \in
        { x \in (0..(bk.posMap.length - 1)) \X BOOLEAN \X InfoCigars \X ReadSeqs :
            /\ x[1] + getLengthInRef(x[3]) <= bk.posMap.length
            /\ Len(x[4]) = QueryLength(x[3]) } }

Buffers(k) == [info |-> infos[k], seq |-> seqs[k], qual |-> quals[k]]

\* What the builder worked on for one record, kept for reference.
AlnNote(b, bk, al) ==
    [mapped |-> ~ReadIsUnmapped(bk.posMap, b.info), al |-> al]

InitBuild ==
    /\ IdleMD
    /\ IdleNM
    /\ IdlePipe
    /\ IdleRun
    /\ bPc = "start"
    /\ bPaired \in BOOLEAN
    /\ bucket \in MaterializedBuckets
    /\ infos = <<>>
    /\ seqs = <<>>
    /\ quals = <<>>
    /\ simOut = <<>>
    /\ records = <<>>
    /\ bAln = <<>>

\* _simulateSingleEnd, line 671
SimulateSingleEnd ==
    /\ bPc = "start"
    /\ ~bPaired
    /\ \E o \in SimulatorOutputs(bucket) :
         /\ infos' = <<o.info>>
         /\ seqs' = <<o.seq>>
         /\ quals' = <<o.qual>>
         /\ simOut' = <<o>>
    /\ bPc' = "simulated"
    /\ UNCHANGED <<bPaired, bucket, records, bAln>>
    /\ UNCHANGED <<varsMD, varsNM, varsPipe, varsRun>>

\* _simulatePairedEnd, lines 636-640
SimulatePairedEnd ==
    /\ bPc = "start"
    /\ bPaired
    /\ \E oL \in SimulatorOutputs(bucket), oR \in SimulatorOutputs(bucket) :
         LET iL == [oL.info EXCEPT !.rID = bucket.rID, !.hID = bucket.hID]
             iR == [oR.info EXCEPT !.rID = bucket.rID, !.hID = bucket.hID]
         IN  /\ infos' = <<iL, iR>>
             /\ seqs' = <<oL.seq, oR.seq>>
             /\ quals' = <<oL.qual, oR.qual>>
             /\ simOut' = <<[oL EXCEPT !.info = iL], [oR EXCEPT !.info = iR]>>
    /\ bPc' = "simulated"
    /\ UNCHANGED <<bPaired, bucket, records, bAln>>
    /\ UNCHANGED <<varsMD, varsNM, varsPipe, varsRun>>

\* The worker buffers and records after a single-end build.
StoreSingle(res, note) ==
    /\ records' = <<res.record>>
    /\ infos' = <<res.buffers.info>>
    /\ seqs' = <<res.buffers.seq>>
    /\ quals' = <<res.buffers.qual>>
    /\ bAln' = <<note>>

\* _simulateSingleEnd, lines 676-678
BuildSingle ==
    /\ bPc = "simulated"
    /\ ~bPaired
    /\ \E al \in AlignmentChoices(Buffers(1), bucket) :
         StoreSingle(SingleEndBuild(Buffers(1), bucket, al),
                     AlnNote(Buffers(1), bucket, al))
    /\ bPc' = "built"
    /\ UNCHANGED <<bPaired, bucket, simOut>>
    /\ UNCHANGED <<varsMD, varsNM, varsPipe, varsRun>>

\* The worker buffers and records after a paired-end build.
StorePaired(res, noteL, noteR) ==
    /\ records' = res.records
    /\ infos' = <<res.buffersL.info, res.buffersR.info>>
    /\ seqs' = <<res.buffersL.seq, res.buffersR.seq>>
    /\ quals' = <<res.buffersL.qual, res.buffersR.qual>>
    /\ bAln' = <<noteL, noteR>>

\* _simulatePairedEnd, lines 648-651
BuildPaired ==
    /\ bPc = "simulated"
    /\ bPaired
    /\ \E alL \in AlignmentChoices(Buffers(1), bucket),
          alR \in AlignmentChoices(Buffers(2), bucket) :
         StorePaired(PairedEndBuild(Buffers(1), Buffers(2), bucket, alL, alR),
                     AlnNote(Buffers(1), bucket, alL),
                     AlnNote(Buffers(2), bucket, alR))
    /\ bPc' = "built"
    /\ UNCHANGED <<bPaired, bucket, simOut>>
    /\ UNCHANGED <<varsMD, varsNM, varsPipe, varsRun>>

NextBuild ==
    \/ SimulateSingleEnd
    \/ SimulatePairedEnd
    \/ BuildSingle
    \/ BuildPaired

SpecBuild == InitBuild /\ [][NextBuild]_vars

\* ------------------------------------------------------------------------
\* Claims on the record builders (SpecBuild)
\* ------------------------------------------------------------------------

Built == bPc = "built"

\* The reference positions info.cigar of the k-th simulated read consumes.
SimLen(k) == getLengthInRef(simOut[k].info.cigar)

\* Whether the k-th simulated interval crosses a breakpoint.
SimCrosses(k) ==
    overlapsWithBreakpoint(bucket.posMap, simOut[k].info.beginPos,
                           simOut[k].info.beginPos + SimLen(k))

\* Whether the k-th simulated read begins in an inserted interval.
SimInserted(k) ==
    getGenomicInterval(bucket.posMap, simOut[k].info.beginPos).kind = "INSERTED"

\* Whether to_small_var_interval returns a > b for the k-th read.
SimReversed(k) ==
    LET sv == toSmallVarInterval(bucket.posMap, simOut[k].info.beginPos,
                                 simOut[k].info.beginPos + SimLen(k))
    IN  sv[1] > sv[2]

\* The interval of the original reference the k-th read is realigned to.
SimOriginal(k) ==
    LET sv == toSmallVarInterval(bucket.posMap, simOut[k].info.beginPos,
                                 simOut[k].info.beginPos + SimLen(k))
    IN  toOriginalInterval(bucket.posMap, Min(sv[1], sv[2]), Max(sv[1], sv[2]))

Mapped(k) == "UNMAPPED" \notin records[k].flag

\* C5: the single-end builder yields an unmapped record exactly when the
\* simulated interval crosses a breakpoint or begins in an inserted
\* interval; the record then has flag UNMAPPED only, invalid ref_id and
\* begin_pos, and seq and qual as the simulator emitted them.
C5_UnmappedExactlyWhen ==
    (Built /\ ~bPaired) =>
        /\ ("UNMAPPED" \in records[1].flag) <=> (SimCrosses(1) \/ SimInserted(1))
        /\ (SimCrosses(1) \/ SimInserted(1)) =>
              /\ records[1].flag = {"UNMAPPED"}
              /\ records[1].rID = INVALID_REFID
              /\ records[1].beginPos = INVALID_POS
              /\ records[1].seq = simOut[1].seq
              /\ records[1].qual = simOut[1].qual

\* C5 witness: a reverse-strand read that crosses a breakpoint has been
\* built into an unmapped record.
C5_Witness ==
    /\ Built /\ ~bPaired
    /\ SimCrosses(1)
    /\ ~simOut[1].info.isForward
    /\ Len(simOut[1].seq) = 2
    /\ "UNMAPPED" \in records[1].flag

\* C6: a mapped record carries the reverse-complement flag exactly when
\* info.is_forward equals the reversed orientation of the interval; with
\* the flag the record holds the reverse complement of the read and the
\* reversed qualities, without it the simulator's output unchanged.
C6_FlipExactlyWhen ==
    Built =>
        \A k \in 1..Len(records) :
            Mapped(k) =>
                /\ ("RC" \in records[k].flag)
                      <=> (simOut[k].info.isForward = SimReversed(k))
                /\ IF "RC" \in records[k].flag
                   THEN /\ records[k].seq = reverseComplement(simOut[k].seq)
                        /\ records[k].qual = Reverse(simOut[k].qual)
                   ELSE /\ records[k].seq = simOut[k].seq
                        /\ records[k].qual = simOut[k].qual

\* C6 witness: a forward read on an inverted interval has been built into
\* a flagged record whose sequence differs from the read.
C6_Witness ==
    /\ Built
    /\ \E k \in 1..Len(records) :
         /\ Mapped(k)
         /\ simOut[k].info.isForward
         /\ SimReversed(k)
         /\ "RC" \in records[k].flag
         /\ Len(records[k].seq) = 2
         /\ records[k].seq # simOut[k].seq

\* C7: the CIGAR of a mapped record consumes as many reference positions
\* as the original-reference interval is long, and as many query positions
\* as record.seq is long.
C7_CigarLengths ==
    Built =>
        \A k \in 1..Len(records) :
            Mapped(k) =>
                /\ getLengthInRef(records[k].cigar)
                      = SimOriginal(k)[2] - SimOriginal(k)[1]
                /\ QueryLength(records[k].cigar) = Len(records[k].seq)

\* C7 witness: a mapped record whose original interval is longer than the
\* read, so that its CIGAR holds a deletion.
C7_Witness ==
    /\ Built
    /\ \E k \in 1..Len(records) :
         /\ Mapped(k)
         /\ SimOriginal(k)[2] - SimOriginal(k)[1] > Len(records[k].seq)
         /\ \E e \in 1..Len(records[k].cigar) :
              records[k].cigar[e].operation = "D"

Abs(x) == IF x < 0 THEN -x ELSE x

\* End of a record on the original reference.
RecordEnd(r) == r.beginPos + getLengthInRef(r.cigar)

\* C10: when both mates are mapped to the same contig, the absolute value
\* of each template_length is max(end_L, end_R) - min(begin_L, begin_R).
C10_TemplateLength ==
    (Built /\ bPaired /\ Mapped(1) /\ Mapped(2)
       /\ records[1].rID = records[2].rID) =>
        LET span == Max(RecordEnd(records[1]), RecordEnd(records[2]))
                    - Min(records[1].beginPos, records[2].beginPos)
        IN  /\ Abs(records[1].tLen) = span
            /\ Abs(records[2].tLen) = span

Unmapped(k) == "UNMAPPED" \in records[k].flag

\* C11: when both mates are mapped to the same contig, template_length(L)
\* is -template_length(R), positive on the mate that begins further left
\* on the original reference and negative on the other, whichever of L and
\* R that is.
C11_TemplateLengthSigns ==
    (Built /\ bPaired /\ Mapped(1) /\ Mapped(2)
       /\ records[1].rID = records[2].rID) =>
        /\ records[1].tLen = -records[2].tLen
        /\ records[1].beginPos < records[2].beginPos =>
             records[1].tLen > 0 /\ records[2].tLen < 0
        /\ records[2].beginPos < records[1].beginPos =>
             records[2].tLen > 0 /\ records[1].tLen < 0

\* The other mate of a pair.
Mate(k) == 3 - k

\* C12: when exactly one mate is unmapped, the unmapped record holds the
\* ref_id and begin_pos of its mapped mate and the UNMAPPED flag, the
\* mapped record holds NEXT_UNMAPPED, and template_length is invalid on
\* both.
C12_OneMateUnmapped ==
    (Built /\ bPaired) =>
        \A k \in {1, 2} :
            (Unmapped(k) /\ ~Unmapped(Mate(k))) =>
                /\ records[Mate(k)].rID = bucket.rID
                /\ records[Mate(k)].beginPos = SimOriginal(Mate(k))[1]
                /\ records[k].rID = records[Mate(k)].rID
                /\ records[k].beginPos = records[Mate(k)].beginPos
                /\ "NEXT_UNMAPPED" \in records[Mate(k)].flag
                /\ records[k].tLen = INVALID_LEN
                /\ records[Mate(k)].tLen = INVALID_LEN

\* C12 witness: a built pair whose left mate lies in an insertion and whose
\* right mate is mapped behind reference base 0.
C12_Witness ==
    /\ Built /\ bPaired
    /\ Unmapped(1) /\ ~Unmapped(2)
    /\ SimInserted(1)
    /\ records[2].beginPos > 0
    /\ records[1].beginPos = records[2].beginPos

\* C13: when both mates are unmapped, both records carry UNMAPPED and
\* NEXT_UNMAPPED, and template_length is invalid on both.
C13_BothMatesUnmapped ==
    (Built /\ bPaired /\ SimCrosses(1) /\ SimCrosses(2)) =>
        \A k \in {1, 2} :
            /\ "UNMAPPED" \in records[k].flag
            /\ "NEXT_UNMAPPED" \in records[k].flag
            /\ records[k].tLen = INVALID_LEN

\* C14: when both mates are mapped, both records carry ALL_PROPER, each
\* record's next_ref_id and next_pos are the ref_id and begin_pos of the
\* other, and a record carries NEXT_RC exactly when its mate carries the
\* reverse-complement flag.
C14_BothMatesMapped ==
    (Built /\ bPaired /\ Mapped(1) /\ Mapped(2)) =>
        \A k \in {1, 2} :
            /\ "ALL_PROPER" \in records[k].flag
            /\ records[k].rNextId = records[Mate(k)].rID
            /\ records[k].pNext = records[Mate(k)].beginPos
            /\ ("NEXT_RC" \in records[k].flag) <=> ("RC" \in records[Mate(k)].flag)

\* C14 witness: a built pair mapped at two positions, the left record on
\* the reverse strand and the right one not.
C14_Witness ==
    /\ Built /\ bPaired
    /\ Mapped(1) /\ Mapped(2)
    /\ records[1].beginPos # records[2].beginPos
    /\ "RC" \in records[1].flag
    /\ "RC" \notin records[2].flag
    /\ "NEXT_RC" \in records[2].flag

\* C15: in all four mapped / unmapped combinations both records of a pair
\* carry MULTIPLE, the left one FIRST and not LAST, the right one LAST and
\* not FIRST.
C15_SegmentFlags ==
    (Built /\ bPaired) =>
        /\ "MULTIPLE" \in records[1].flag
        /\ "MULTIPLE" \in records[2].flag
        /\ "FIRST" \in records[1].flag
        /\ "LAST" \notin records[1].flag
        /\ "LAST" \in records[2].flag
        /\ "FIRST" \notin records[2].flag

\* C15 witness: a built pair whose left mate is unmapped and whose right
\* mate is mapped.
C15_Witness ==
    /\ Built /\ bPaired
    /\ SimCrosses(1)
    /\ Unmapped(1)
    /\ Mapped(2)
    /\ "LAST" \in records[2].flag

\* C16: on every unmapped record the uR tag is 'B' only if the simulated
\* interval crosses a breakpoint and 'I' only if it crosses none and begins
\* in an inserted interval; an interval that does both is tagged 'B'.
C16_UnmappedReason ==
    Built =>
        \A k \in 1..Len(records) :
            (SimCrosses(k) \/ SimInserted(k)) =>
                /\ HasTag(records[k], "uR")
                /\ TagValue(records[k], "uR") \in {"B", "I"}
                /\ TagValue(records[k], "uR") = "B" => SimCrosses(k)
                /\ TagValue(records[k], "uR") = "I" =>
                     ~SimCrosses(k) /\ SimInserted(k)
                /\ (SimCrosses(k) /\ SimInserted(k)) =>
                     TagValue(records[k], "uR") = "B"

\* C16 witness: a built pair with one mate that begins in an insertion and
\* runs over its end, tagged 'B', and one mate inside the insertion,
\* tagged 'I'.
C16_Witness ==
    /\ Built /\ bPaired
    /\ SimCrosses(1) /\ SimInserted(1)
    /\ TagValue(records[1], "uR") = "B"
    /\ ~SimCrosses(2) /\ SimInserted(2)
    /\ TagValue(records[2], "uR") = "I"

\* C24: after build returns, in every case (mapped with flip, mapped
\* without flip, unmapped), the worker's read sequence, quality string and
\* info.cigar are what the simulator emitted, also where the record holds
\* the reverse complement.
C24_BuffersRestored ==
    Built =>
        \A k \in 1..Len(records) :
            /\ seqs[k] = simOut[k].seq
            /\ quals[k] = simOut[k].qual
            /\ infos[k].cigar = simOut[k].info.cigar

\* C24 witness: a built pair whose left record holds the reverse
\* complement of the left read, with sequence, qualities and cigar that
\* change under the flip, and whose right record is not flipped.
C24_Witness ==
    /\ Built /\ bPaired
    /\ Mapped(1) /\ Mapped(2)
    /\ "RC" \in records[1].flag
    /\ "RC" \notin records[2].flag
    /\ records[1].seq = reverseComplement(seqs[1])
    /\ records[1].seq # seqs[1]
    /\ records[1].qual # quals[1]
    /\ Reverse(infos[1].cigar) # infos[1].cigar

\* C31: in every record a builder leaves, single-end or paired-end, and
\* also where the mate completion has copied the mate's ref_id and
\* begin_pos into it, the UNMAPPED flag, the uR tag and the absence of
\* both the NM and the MD tag go together: the record carries the flag
\* exactly when it carries uR, and exactly when it carries neither NM nor
\* MD.
C31_UnmappedFlagAndTags ==
    Built =>
        \A k \in 1..Len(records) :
            /\ ("UNMAPPED" \in records[k].flag) <=> HasTag(records[k], "uR")
            /\ ("UNMAPPED" \in records[k].flag) <=>
                   (~HasTag(records[k], "NM") /\ ~HasTag(records[k], "MD"))

\* C31 witness: a built pair whose right mate crosses a breakpoint and
\* holds the position of its mapped left mate, the left record carrying
\* NM and MD and the right record carrying uR.
C31_Witness ==
    /\ Built /\ bPaired
    /\ SimCrosses(2)
    /\ "UNMAPPED" \in records[2].flag
    /\ "UNMAPPED" \notin records[1].flag
    /\ records[2].rID = bucket.rID
    /\ records[2].beginPos = records[1].beginPos
    /\ records[2].beginPos # INVALID_POS
    /\ HasTag(records[2], "uR")
    /\ HasTag(records[1], "NM") /\ HasTag(records[1], "MD")

\* C35: in every record a builder leaves, mapped or unmapped, single-end
\* or paired-end, flipped or not, the oP tag is the begin position the
\* simulator emitted on the materialized haplotype, oS is 'F' exactly when
\* the simulator emitted a forward read, and oH is the haplotype id of the
\* builder plus one.
C35_OriginTags ==
    Built =>
        \A k \in 1..Len(records) :
            /\ HasTag(records[k], "oP")
            /\ HasTag(records[k], "oS")
            /\ HasTag(records[k], "oH")
            /\ TagValue(records[k], "oP") = simOut[k].info.beginPos
            /\ TagValue(records[k], "oS")
                 = (IF simOut[k].info.isForward THEN "F" ELSE "R")
            /\ TagValue(records[k], "oH") = bucket.hID + 1

\* C35 witness: a built pair on the second haplotype whose left record is
\* mapped and flipped, at a position of the original reference that is
\* not its position on the haplotype, and whose right record is unmapped
\* and holds the position of the left one.
C35_Witness ==
    /\ Built /\ bPaired
    /\ bucket.hID = 1
    /\ Mapped(1) /\ Unmapped(2)
    /\ "RC" \in records[1].flag
    /\ records[1].beginPos # simOut[1].info.beginPos
    /\ records[2].beginPos = records[1].beginPos
    /\ simOut[2].info.beginPos # records[2].beginPos
    /\ simOut[1].info.isForward # simOut[2].info.isForward

\* ------------------------------------------------------------------------
\* The pipeline: MasonSimulatorApp::_simulateReads
\* ------------------------------------------------------------------------

MaxFragments == 3

ThreadCounts == {1, 2}

ChunkSizes == {1, 2}

Seeds == {0}

SeedSpacings == {2048}

\* The contigs of the FAI index and the haplotypes of the VCF file.
Contigs == {0, 1}

Haplotypes == {0, 1}

\* numSeqs(vcfMat.faiIndex)
seqCount == Cardinality(Contigs)

\* vcfMat.numHaplotypes
haplotypeCount == Cardinality(Haplotypes)

\* fragmentIdSplitter.numContigs, line 993; the files are numbered from 0.
BucketFiles == 0..(seqCount * haplotypeCount - 1)

\* The options the pipeline reads.  outFileNameSam stands for
\* !empty(options.outFileNameSam).
OptionSets ==
    [numFragments : 0..MaxFragments,
     numThreads : ThreadCounts,
     chunkSize : ChunkSizes,
     seed : Seeds,
     seedSpacing : SeedSpacings,
     simulateMatePairs : BOOLEAN,
     embedReadInfo : BOOLEAN,
     outFileNameSam : BOOLEAN]

\* A linearization that runs over the contigs first.
toId_ContigsFirst(pair) == pair[1] + pair[2] * seqCount

\* ContigPicker::toId
toId(pair) == pair[1] * haplotypeCount + pair[2]

\* The index of the bucket file of a mis-linearized (contig, haplotype).
FileIndex_Sum(r, h) == r + h

FileIndex_Transposed(r, h) == r + h * seqCount

\* rID * haplotypeCount + hID, lines 830, 848, 854
FileIndex(r, h) == r * haplotypeCount + h

\* The state of a TRng: the seed it was started from and the numbers drawn.
Rng(seed) == [seed |-> seed, draws |-> 0]

Advance(rng, n) == [rng EXCEPT !.draws = @ + n]

\* options.seed + i * options.seedSpacing, line 1051
ThreadSeed(opts, i) == opts.seed + i * opts.seedSpacing

\* ReadSimulatorThread after init(seed, options), lines 589-603
ThreadInit(seed) ==
    [rng |-> Rng(seed),
     fragmentIds |-> <<>>,
     fragments |-> <<>>,
     ids |-> <<>>,
     seqs |-> <<>>,
     infos |-> <<>>,
     alignmentRecords |-> <<>>]

\* The header _initAlignmentSplitter writes to every alignment file.
SamHeader == [kind |-> "header", VN |-> "1.4"]

IsAlignmentRecord(x) == x.kind = "record"

\* The generator a worker other than the first draws from when all workers
\* share one generator.
ThreadRng_Shared(thr, tID) == thr[0].rng

\* A worker drawing from the generator of the next worker of the team.
ThreadRng_Neighbour(thr, tID) == thr[(tID + 1) % options.numThreads].rng

\* The generator the sampler and the simulator of worker tID hold a
\* reference to, lines 596 and 599.
ThreadRng(thr, tID) == thr[tID].rng

\* FragmentSampler::generateMany: n fragments, one draw each.
generateMany(rng, r, n) ==
    [i \in 1..n |-> [rID |-> r, drawn |-> Advance(rng, i - 1)]]

\* SequencingSimulator: the read (sequence and qualities) simulated from a
\* fragment of haplotype (r, h), as a function of the generator state.
SimulatedRead(frag, r, h, rng, mate) ==
    [rID |-> r, hID |-> h, fragment |-> frag, drawn |-> rng, mate |-> mate]

\* options->seqOptions.readNamePrefix, line 609
readNamePrefix == "simulated."

\* _setId writing the fragment id itself, not the id plus one.
setId_ZeroBased(fragId, num, info, forceNoEmbed) ==
    [prefix |-> readNamePrefix,
     number |-> fragId,
     suffix |-> IF num = 0 \/ forceNoEmbed THEN ""
                ELSE IF num = 1 THEN "/1" ELSE "/2",
     embedded |-> IF options.embedReadInfo /\ ~forceNoEmbed
                  THEN <<" ", info>> ELSE <<>>]

\* _setId with forceNoEmbed switching off the embedding only.
setId_SuffixKept(fragId, num, info, forceNoEmbed) ==
    [prefix |-> readNamePrefix,
     number |-> fragId + 1,
     suffix |-> IF num = 0 THEN ""
                ELSE IF num = 1 THEN "/1" ELSE "/2",
     embedded |-> IF options.embedReadInfo /\ ~forceNoEmbed
                  THEN <<" ", info>> ELSE <<>>]

\* _setId, lines 605-623: what the stream holds after each group of
\* appends, in the order of the appends.
setId(fragId, num, info, forceNoEmbed) ==
    [prefix |-> readNamePrefix,
     number |-> fragId + 1,
     suffix |-> IF num = 0 \/ forceNoEmbed THEN ""
                ELSE IF num = 1 THEN "/1" ELSE "/2",
     embedded |-> IF options.embedReadInfo /\ ~forceNoEmbed
                  THEN <<" ", info>> ELSE <<>>]

\* The alignment record of a read, as far as the pipeline looks at it.
AlignmentRecord(qName, read, r, h) ==
    [kind |-> "record", qName |-> qName, read |-> read, rID |-> r, hID |-> h]

\* The sequencing information of a read as the simulator leaves it.
SimulatedInfo(rng) == [rID |-> INVALID_REFID, hID |-> -1, drawn |-> rng]

\* _simulateSingleEnd, lines 668-682: element i of the buffers.
SingleEndAt(fragId, frag, rng, r, h) ==
    [id |-> setId(fragId, 0, SimulatedInfo(rng), FALSE),
     seq |-> SimulatedRead(frag, r, h, rng, 0),
     info |-> IF options.outFileNameSam
              THEN [SimulatedInfo(rng) EXCEPT !.rID = r, !.hID = h]
              ELSE SimulatedInfo(rng),
     record |-> AlignmentRecord(setId(fragId, 1, SimulatedInfo(rng), TRUE),
                                SimulatedRead(frag, r, h, rng, 0), r, h)]

\* _simulatePairedEnd, lines 633-656: element i (mate 1) or i + 1 (mate 2).
PairedEndAt(fragId, frag, rng, r, h, mate) ==
    [id |-> setId(fragId, mate,
                  [SimulatedInfo(rng) EXCEPT !.rID = r, !.hID = h], FALSE),
     seq |-> SimulatedRead(frag, r, h, rng, mate),
     info |-> [SimulatedInfo(rng) EXCEPT !.rID = r, !.hID = h],
     record |-> AlignmentRecord(
                    setId(fragId, mate,
                          [SimulatedInfo(rng) EXCEPT !.rID = r, !.hID = h], TRUE),
                    SimulatedRead(frag, r, h, rng, mate), r, h)]

\* Element k of the read buffers of a run over fragmentIds fids with the
\* fragments frags; rng is the generator after the sampler.
ReadAt(fids, frags, rng, r, h, k) ==
    IF options.simulateMatePairs
    THEN PairedEndAt(fids[(k + 1) \div 2], frags[(k + 1) \div 2],
                     Advance(rng, (k + 1) \div 2 - 1), r, h, 2 - (k % 2))
    ELSE SingleEndAt(fids[k], frags[k], Advance(rng, k - 1), r, h)

\* seqCount of run, line 696
ReadCount(n) == (IF options.simulateMatePairs THEN 2 ELSE 1) * n

\* ReadSimulatorThread::run, lines 686-710, on the generator rng.
ThreadRunOn(th, frags, rng, r, h) ==
    [th EXCEPT
       !.rng = Advance(rng, Len(th.fragmentIds)),
       !.fragments = frags,
       !.ids = [k \in 1..ReadCount(Len(th.fragmentIds)) |->
                   ReadAt(th.fragmentIds, frags, rng, r, h, k).id],
       !.seqs = [k \in 1..ReadCount(Len(th.fragmentIds)) |->
                   ReadAt(th.fragmentIds, frags, rng, r, h, k).seq],
       !.infos = [k \in 1..ReadCount(Len(th.fragmentIds)) |->
                   ReadAt(th.fragmentIds, frags, rng, r, h, k).info],
       !.alignmentRecords =
           IF options.outFileNameSam
           THEN [k \in 1..ReadCount(Len(th.fragmentIds)) |->
                   ReadAt(th.fragmentIds, frags, rng, r, h, k).record]
           ELSE th.alignmentRecords]

\* A run that returns at once, buffers untouched, when no ordinal was loaded.
ThreadRun_SkipEmpty(th, rng, r, h) ==
    IF Len(th.fragmentIds) = 0
    THEN th
    ELSE ThreadRunOn(th, generateMany(rng, r, Len(th.fragmentIds)),
                     Advance(rng, Len(th.fragmentIds)), r, h)

ThreadRun(th, rng, r, h) ==
    ThreadRunOn(th, generateMany(rng, r, Len(th.fragmentIds)),
                Advance(rng, Len(th.fragmentIds)), r, h)

\* fread of up to count ordinals at offset pos, line 829
Fread(file, pos, count) == SubSeq(file, pos + 1, Min(pos + count, Len(file)))

\* contigFragmentCount += numRead, line 831
CountAfterRead_Requested(count, numRead, chunkSize) == count + chunkSize

CountAfterRead(count, numRead, chunkSize) == count + numRead

\* What one load notes in the history.
LoadEntries(got, tID) ==
    [k \in 1..Len(got) |->
        [ordinal |-> got[k], tID |-> tID, rID |-> curRID, hID |-> curHID,
         round |-> round + 1]]

\* The loop body ending the rounds on the first chunk that is not full.
LoadOne_BreakOnShort(st, tID, got) ==
    [threads |-> [st.threads EXCEPT ![tID].fragmentIds = got],
     pos |-> st.pos + Len(got),
     count |-> CountAfterRead(st.count, Len(got), options.chunkSize),
     doBreak |-> st.doBreak \/ Len(got) < options.chunkSize,
     log |-> st.log \o LoadEntries(got, tID)]

\* The body of the loop of lines 822-835 for worker tID, which read got.
LoadOne(st, tID, got) ==
    [threads |-> [st.threads EXCEPT ![tID].fragmentIds = got],
     pos |-> st.pos + Len(got),
     count |-> CountAfterRead(st.count, Len(got), options.chunkSize),
     doBreak |-> st.doBreak \/ Len(got) = 0,
     log |-> st.log \o LoadEntries(got, tID)]

RECURSIVE LoadLoop(_, _, _)
\* for (tID = 0; tID < options.numThreads; ++tID), lines 822-835
LoadLoop(file, tID, st) ==
    IF tID >= options.numThreads
    THEN st
    ELSE LoadLoop(file, tID + 1,
                  LoadOne(st, tID, Fread(file, st.pos, options.chunkSize)))

\* The FASTQ records write2 appends for one worker, lines 848-849.
FastqRecords(th) ==
    [k \in 1..Len(th.ids) |-> [id |-> th.ids[k], seq |-> th.seqs[k]]]

RECURSIVE WriteFastq_Descending(_, _)
\* The write loop running from the last worker to the first.
WriteFastq_Descending(thr, tID) ==
    IF tID >= options.numThreads
    THEN <<>>
    ELSE WriteFastq_Descending(thr, tID + 1) \o FastqRecords(thr[tID])

RECURSIVE WriteFastq(_, _)
\* for (tID = 0; ...), lines 846-850
WriteFastq(thr, tID) ==
    IF tID >= options.numThreads
    THEN <<>>
    ELSE FastqRecords(thr[tID]) \o WriteFastq(thr, tID + 1)

RECURSIVE WriteAlignments_Descending(_, _)
\* The alignment write loop running from the last worker to the first.
WriteAlignments_Descending(thr, tID) ==
    IF tID >= options.numThreads
    THEN <<>>
    ELSE WriteAlignments_Descending(thr, tID + 1) \o thr[tID].alignmentRecords

RECURSIVE WriteAlignments(_, _)
\* for (tID = 0; ...), lines 851-857
WriteAlignments(thr, tID) ==
    IF tID >= options.numThreads
    THEN <<>>
    ELSE thr[tID].alignmentRecords \o WriteAlignments(thr, tID + 1)

RECURSIVE JoinFiles(_, _)
\* FastxJoiner / SamJoiner: the files one after the other, from file b on.
JoinFiles(files, b) ==
    IF b \notin DOMAIN files
    THEN <<>>
    ELSE files[b] \o JoinFiles(files, b + 1)

\* The records of every file that lie behind the file's offset.
Unread(files, pos) ==
    [b \in DOMAIN files |-> SubSeq(files[b], pos[b] + 1, Len(files[b]))]

\* Every second record from the first on, whichever output is written.
EverySecond_FromFirst(stream, k) ==
    [j \in 1..((Len(stream) + 1) \div 2) |-> stream[2 * j - 1]]

\* Every second record, from the first (k = 1) or the second (k = 2) on.
EverySecond(stream, k) ==
    [j \in 1..((Len(stream) + 2 - k) \div 2) |-> stream[2 * j + k - 2]]

Init ==
    /\ IdleMD
    /\ IdleBuild
    /\ IdleNM
    /\ IdleRun
    /\ options \in OptionSets
    /\ rngPicks \in [1..options.numFragments -> Contigs \X Haplotypes]
    /\ pc = "distribute"
    /\ nextOrdinal = 0
    /\ fragmentIdFiles = [b \in BucketFiles |-> <<>>]
    /\ fragmentIdPos = [b \in BucketFiles |-> 0]
    /\ nextBucket = 0
    /\ curRID = 0
    /\ curHID = 0
    /\ contigFragmentCount = 0
    /\ doBreak = FALSE
    /\ threads = [t \in 0..(options.numThreads - 1) |->
                     ThreadInit(ThreadSeed(options, t))]
    /\ finished = {}
    /\ fragmentFiles = [b \in BucketFiles |-> <<>>]
    /\ alignmentFiles = [b \in BucketFiles |->
                            IF options.outFileNameSam THEN <<SamHeader>> ELSE <<>>]
    /\ fragmentPos = [b \in BucketFiles |-> 0]
    /\ alignmentPos = [b \in BucketFiles |->
                          IF options.outFileNameSam THEN 1 ELSE 0]
    /\ outSeqsLeft = <<>>
    /\ outSeqsRight = <<>>
    /\ outBamStream = <<>>
    /\ reported = <<>>
    /\ loadLog = <<>>
    /\ round = 0

varsOthers == <<varsMD, varsBuild, varsNM, varsRun>>

\* lines 926-927: one iteration
Distribute ==
    /\ pc = "distribute"
    /\ nextOrdinal < options.numFragments
    /\ fragmentIdFiles' =
           [fragmentIdFiles EXCEPT ![toId(rngPicks[nextOrdinal + 1])] =
               Append(@, nextOrdinal)]
    /\ fragmentIdPos' =
           [fragmentIdPos EXCEPT ![toId(rngPicks[nextOrdinal + 1])] = @ + 1]
    /\ nextOrdinal' = nextOrdinal + 1
    /\ UNCHANGED <<options, rngPicks, pc, nextBucket, curRID, curHID,
                   contigFragmentCount, doBreak, threads, finished,
                   fragmentFiles, alignmentFiles, outSeqsLeft, outSeqsRight,
                   outBamStream, reported, loadLog, round>>
    /\ UNCHANGED <<fragmentPos, alignmentPos>>
    /\ UNCHANGED varsOthers

\* A reset that is run after the first ordinal has been written.
ResetIdSplitter_AfterFirst ==
    /\ pc = "distribute"
    /\ nextOrdinal >= 1
    /\ fragmentIdPos' = [b \in BucketFiles |-> 0]
    /\ pc' = "materialize"
    /\ UNCHANGED <<options, rngPicks, nextOrdinal, fragmentIdFiles, nextBucket,
                   curRID, curHID, contigFragmentCount, doBreak, threads,
                   finished, fragmentFiles, alignmentFiles, outSeqsLeft,
                   outSeqsRight, outBamStream, reported, loadLog, round>>
    /\ UNCHANGED <<fragmentPos, alignmentPos>>
    /\ UNCHANGED varsOthers

\* line 928: fragmentIdSplitter.reset() rewinds every file
ResetIdSplitter ==
    /\ pc = "distribute"
    /\ nextOrdinal = options.numFragments
    /\ fragmentIdPos' = [b \in BucketFiles |-> 0]
    /\ pc' = "materialize"
    /\ UNCHANGED <<options, rngPicks, nextOrdinal, fragmentIdFiles, nextBucket,
                   curRID, curHID, contigFragmentCount, doBreak, threads,
                   finished, fragmentFiles, alignmentFiles, outSeqsLeft,
                   outSeqsRight, outBamStream, reported, loadLog, round>>
    /\ UNCHANGED <<fragmentPos, alignmentPos>>
    /\ UNCHANGED varsOthers

\* lines 811-817: the materializer yields the pairs contig by contig,
\* haplotype by haplotype, then reports the end
MaterializeNext ==
    /\ pc = "materialize"
    /\ IF nextBucket < seqCount * haplotypeCount
       THEN /\ curRID' = nextBucket \div haplotypeCount
            /\ curHID' = nextBucket % haplotypeCount
            /\ nextBucket' = nextBucket + 1
            /\ contigFragmentCount' = 0
            /\ round' = 0
            /\ pc' = "load"
       ELSE /\ pc' = "join"
            /\ UNCHANGED <<curRID, curHID, nextBucket, contigFragmentCount,
                           round>>
    /\ UNCHANGED <<options, rngPicks, nextOrdinal, fragmentIdFiles,
                   fragmentIdPos, doBreak, threads, finished, fragmentFiles,
                   alignmentFiles, outSeqsLeft, outSeqsRight, outBamStream,
                   reported, loadLog>>
    /\ UNCHANGED <<fragmentPos, alignmentPos>>
    /\ UNCHANGED varsOthers

\* The state after the loop of lines 822-835.
StoreLoad(st) ==
    /\ threads' = st.threads
    /\ fragmentIdPos' =
           [fragmentIdPos EXCEPT ![FileIndex(curRID, curHID)] = st.pos]
    /\ contigFragmentCount' = st.count
    /\ doBreak' = st.doBreak
    /\ loadLog' = st.log

\* lines 821-835
LoadChunks ==
    /\ pc = "load"
    /\ StoreLoad(LoadLoop(fragmentIdFiles[FileIndex(curRID, curHID)], 0,
                          [threads |-> threads,
                           pos |-> fragmentIdPos[FileIndex(curRID, curHID)],
                           count |-> contigFragmentCount,
                           doBreak |-> FALSE,
                           log |-> loadLog]))
    /\ round' = round + 1
    /\ finished' = {}
    /\ pc' = "parallel"
    /\ UNCHANGED <<options, rngPicks, nextOrdinal, fragmentIdFiles, nextBucket,
                   curRID, curHID, fragmentFiles, alignmentFiles, outSeqsLeft,
                   outSeqsRight, outBamStream, reported>>
    /\ UNCHANGED <<fragmentPos, alignmentPos>>
    /\ UNCHANGED varsOthers

\* lines 838-843: worker tID of the team runs; the workers run in any order
Run(tID) ==
    /\ pc = "parallel"
    /\ tID \in DOMAIN threads
    /\ tID \notin finished
    /\ threads' = [threads EXCEPT
                     ![tID] = ThreadRun(threads[tID], ThreadRng(threads, tID),
                                        curRID, curHID)]
    /\ finished' = finished \cup {tID}
    /\ UNCHANGED <<options, rngPicks, pc, nextOrdinal, fragmentIdFiles,
                   fragmentIdPos, nextBucket, curRID, curHID,
                   contigFragmentCount, doBreak, fragmentFiles, alignmentFiles,
                   outSeqsLeft, outSeqsRight, outBamStream, reported, loadLog,
                   round>>
    /\ UNCHANGED <<fragmentPos, alignmentPos>>
    /\ UNCHANGED varsOthers

\* The write of a round as soon as one worker has returned.
WriteOut_BeforeBarrier ==
    /\ pc = "parallel"
    /\ finished # {}
    /\ fragmentFiles' =
           [fragmentFiles EXCEPT ![FileIndex(curRID, curHID)] =
               @ \o WriteFastq(threads, 0)]
    /\ alignmentFiles' =
           IF options.outFileNameSam
           THEN [alignmentFiles EXCEPT ![FileIndex(curRID, curHID)] =
                    @ \o WriteAlignments(threads, 0)]
           ELSE alignmentFiles
    /\ fragmentPos' =
           [fragmentPos EXCEPT ![FileIndex(curRID, curHID)] =
               @ + Len(WriteFastq(threads, 0))]
    /\ alignmentPos' =
           IF options.outFileNameSam
           THEN [alignmentPos EXCEPT ![FileIndex(curRID, curHID)] =
                    @ + Len(WriteAlignments(threads, 0))]
           ELSE alignmentPos
    /\ IF doBreak
       THEN /\ reported' = Append(reported, contigFragmentCount)
            /\ pc' = "materialize"
       ELSE /\ pc' = "load"
            /\ UNCHANGED reported
    /\ UNCHANGED <<options, rngPicks, nextOrdinal, fragmentIdFiles,
                   fragmentIdPos, nextBucket, curRID, curHID,
                   contigFragmentCount, doBreak, threads, finished,
                   outSeqsLeft, outSeqsRight, outBamStream, loadLog, round>>
    /\ UNCHANGED varsOthers

\* lines 846-865, after the barrier that ends the parallel region
WriteOut ==
    /\ pc = "parallel"
    /\ finished = DOMAIN threads
    /\ fragmentFiles' =
           [fragmentFiles EXCEPT ![FileIndex(curRID, curHID)] =
               @ \o WriteFastq(threads, 0)]
    /\ alignmentFiles' =
           IF options.outFileNameSam
           THEN [alignmentFiles EXCEPT ![FileIndex(curRID, curHID)] =
                    @ \o WriteAlignments(threads, 0)]
           ELSE alignmentFiles
    /\ fragmentPos' =
           [fragmentPos EXCEPT ![FileIndex(curRID, curHID)] =
               @ + Len(WriteFastq(threads, 0))]
    /\ alignmentPos' =
           IF options.outFileNameSam
           THEN [alignmentPos EXCEPT ![FileIndex(curRID, curHID)] =
                    @ + Len(WriteAlignments(threads, 0))]
           ELSE alignmentPos
    /\ IF doBreak
       THEN /\ reported' = Append(reported, contigFragmentCount)
            /\ pc' = "materialize"
       ELSE /\ pc' = "load"
            /\ UNCHANGED reported
    /\ UNCHANGED <<options, rngPicks, nextOrdinal, fragmentIdFiles,
                   fragmentIdPos, nextBucket, curRID, curHID,
                   contigFragmentCount, doBreak, threads, finished,
                   outSeqsLeft, outSeqsRight, outBamStream, loadLog, round>>
    /\ UNCHANGED varsOthers

\* line 873: fragmentSplitter.reset() rewinds every file
ResetFragmentSplitter ==
    /\ pc = "join"
    /\ fragmentPos' = [b \in BucketFiles |-> 0]
    /\ pc' = "joinFastq"
    /\ UNCHANGED <<options, rngPicks, nextOrdinal, fragmentIdFiles,
                   fragmentIdPos, nextBucket, curRID, curHID,
                   contigFragmentCount, doBreak, threads, finished,
                   fragmentFiles, alignmentFiles, alignmentPos, outSeqsLeft,
                   outSeqsRight, outBamStream, reported, loadLog, round>>
    /\ UNCHANGED varsOthers

\* lines 874-893: the joiner reads every file from its offset to its end
JoinFastq ==
    /\ pc = "joinFastq"
    /\ IF options.simulateMatePairs
       THEN /\ outSeqsLeft' =
                  EverySecond(JoinFiles(Unread(fragmentFiles, fragmentPos), 0), 1)
            /\ outSeqsRight' =
                  EverySecond(JoinFiles(Unread(fragmentFiles, fragmentPos), 0), 2)
       ELSE /\ outSeqsLeft' = JoinFiles(Unread(fragmentFiles, fragmentPos), 0)
            /\ UNCHANGED outSeqsRight
    /\ fragmentPos' = [b \in BucketFiles |-> Len(fragmentFiles[b])]
    /\ pc' = IF options.outFileNameSam THEN "joinSam" ELSE "done"
    /\ UNCHANGED <<options, rngPicks, nextOrdinal, fragmentIdFiles,
                   fragmentIdPos, nextBucket, curRID, curHID,
                   contigFragmentCount, doBreak, threads, finished,
                   fragmentFiles, alignmentFiles, alignmentPos, outBamStream,
                   reported, loadLog, round>>
    /\ UNCHANGED varsOthers

\* lines 894-896: alignmentSplitter.reset() rewinds every file
ResetAlignmentSplitter ==
    /\ pc = "joinSam"
    /\ alignmentPos' = [b \in BucketFiles |-> 0]
    /\ pc' = "joinRecords"
    /\ UNCHANGED <<options, rngPicks, nextOrdinal, fragmentIdFiles,
                   fragmentIdPos, nextBucket, curRID, curHID,
                   contigFragmentCount, doBreak, threads, finished,
                   fragmentFiles, alignmentFiles, fragmentPos, outSeqsLeft,
                   outSeqsRight, outBamStream, reported, loadLog, round>>
    /\ UNCHANGED varsOthers

\* lines 897-909: the joiner reads every file from its offset to its end
JoinAlignments ==
    /\ pc = "joinRecords"
    /\ outBamStream' =
           <<SamHeader>>
             \o SelectSeq(JoinFiles(Unread(alignmentFiles, alignmentPos), 0),
                          IsAlignmentRecord)
    /\ alignmentPos' = [b \in BucketFiles |-> Len(alignmentFiles[b])]
    /\ pc' = "done"
    /\ UNCHANGED <<options, rngPicks, nextOrdinal, fragmentIdFiles,
                   fragmentIdPos, nextBucket, curRID, curHID,
                   contigFragmentCount, doBreak, threads, finished,
                   fragmentFiles, alignmentFiles, fragmentPos, outSeqsLeft,
                   outSeqsRight, reported, loadLog, round>>
    /\ UNCHANGED varsOthers

Next ==
    \/ Distribute
    \/ ResetIdSplitter
    \/ MaterializeNext
    \/ LoadChunks
    \/ \E tID \in 0..(options.numThreads - 1) : Run(tID)
    \/ WriteOut
    \/ ResetFragmentSplitter
    \/ JoinFastq
    \/ ResetAlignmentSplitter
    \/ JoinAlignments

Spec == Init /\ [][Next]_vars

\* The runs that write plain ids: the order and the number of the steps
\* of the pipeline do not depend on what the ids embed.
InitLive == Init /\ ~options.embedReadInfo

\* The pipeline is one sequential program around the parallel regions, and
\* every worker of a region runs to its end: some enabled step is taken.
SpecLive == InitLive /\ [][Next]_vars /\ WF_vars(Next)

\* ------------------------------------------------------------------------
\* Claims on the pipeline (Spec)
\* ------------------------------------------------------------------------

Ordinals == 0..(options.numFragments - 1)

AfterSimulate ==
    pc \in {"join", "joinFastq", "joinSam", "joinRecords", "done"}

\* Where ordinal o stands in the bucket files.
WrittenTo(o) ==
    {bk \in BucketFiles \X (1..MaxFragments + 1) :
        /\ bk[2] <= Len(fragmentIdFiles[bk[1]])
        /\ fragmentIdFiles[bk[1]][bk[2]] = o}

\* The loads of ordinal o.
Loads(o) == {k \in 1..Len(loadLog) : loadLog[k].ordinal = o}

\* C1: every ordinal in 0..num_fragments-1 is written to exactly one bucket
\* file in the distribute phase; over the simulate phase it is loaded into
\* the fragment_ids of exactly one worker in exactly one round, never twice
\* and, once the phase is over, never lost.
C1_EveryOrdinalOnce ==
    /\ \A o \in Ordinals :
         /\ Cardinality(WrittenTo(o)) = IF o < nextOrdinal THEN 1 ELSE 0
         /\ Cardinality(Loads(o)) <= 1
         /\ AfterSimulate => Cardinality(Loads(o)) = 1
    /\ \A k \in 1..Len(loadLog) : loadLog[k].ordinal \in Ordinals
    /\ pc = "parallel" =>
         \A t1 \in DOMAIN threads, t2 \in DOMAIN threads :
             /\ \A k \in 1..Len(threads[t1].fragmentIds) :
                  \E e \in 1..Len(loadLog) :
                      /\ loadLog[e].ordinal = threads[t1].fragmentIds[k]
                      /\ loadLog[e].tID = t1
                      /\ loadLog[e].round = round
             /\ t1 # t2 =>
                  \A k1 \in 1..Len(threads[t1].fragmentIds),
                     k2 \in 1..Len(threads[t2].fragmentIds) :
                      threads[t1].fragmentIds[k1] # threads[t2].fragmentIds[k2]

\* C1 witness: a finished run of three ordinals in which one bucket was
\* loaded by two workers and another bucket in two rounds.
C1_Witness ==
    /\ pc = "done"
    /\ options.numFragments = 3
    /\ options.numThreads = 2
    /\ \E e1 \in 1..Len(loadLog), e2 \in 1..Len(loadLog) :
         /\ loadLog[e1].round = 2
         /\ loadLog[e2].tID = 1
         /\ loadLog[e2].round = 1

RECURSIVE OrdinalsOf(_, _)
\* The ordinals among the first n that the picker sends to bucket b.
OrdinalsOf(b, n) ==
    IF n = 0
    THEN <<>>
    ELSE IF toId(rngPicks[n]) = b
         THEN Append(OrdinalsOf(b, n - 1), n - 1)
         ELSE OrdinalsOf(b, n - 1)

Picked(b) == OrdinalsOf(b, options.numFragments)

\* The chunk and the worker of the p-th ordinal of a bucket.
ChunkOf(p) == (p - 1) \div options.chunkSize

WorkerOf(p) == ChunkOf(p) % options.numThreads

\* The ordinals worker t handles in the chunks before chunk j of a bucket
\* holding len ordinals.
HandledInBucket(t, len, j) ==
    Cardinality({p \in 1..len : WorkerOf(p) = t /\ ChunkOf(p) < j})

RECURSIVE HandledBefore(_, _)
\* The ordinals worker t handles in the buckets before bucket b.
HandledBefore(t, b) ==
    IF b = 0
    THEN 0
    ELSE HandledBefore(t, b - 1)
           + HandledInBucket(t, Len(Picked(b - 1)), Len(Picked(b - 1)))

\* The numbers worker t has drawn when it starts chunk j of bucket b: one
\* per fragment for the sampler and one per fragment for the simulator.
DrawnBefore(t, b, j) ==
    2 * (HandledBefore(t, b) + HandledInBucket(t, Len(Picked(b)), j))

\* The buffers' element (id, read, info, record) a run yields for the p-th
\* ordinal of bucket b, computed from the inputs alone.
ExpectedAt(b, p, mate) ==
    LET t == WorkerOf(p)
        q == (p - 1) % options.chunkSize
        n == Min(options.chunkSize, Len(Picked(b)) - ChunkOf(p) * options.chunkSize)
        seed == ThreadSeed(options, t)
        base == DrawnBefore(t, b, ChunkOf(p))
        r == b \div haplotypeCount
        h == b % haplotypeCount
        frag == [rID |-> r, drawn |-> [seed |-> seed, draws |-> base + q]]
        rng == [seed |-> seed, draws |-> base + n + q]
    IN  IF options.simulateMatePairs
        THEN PairedEndAt(Picked(b)[p], frag, rng, r, h, mate)
        ELSE SingleEndAt(Picked(b)[p], frag, rng, r, h)

\* The reads of bucket b in the order of its ordinals, mates together.
ExpectedOfBucket(b) ==
    [k \in 1..ReadCount(Len(Picked(b))) |->
        IF options.simulateMatePairs
        THEN ExpectedAt(b, (k + 1) \div 2, 2 - (k % 2))
        ELSE ExpectedAt(b, k, 0)]

RECURSIVE ExpectedFrom(_)
ExpectedFrom(b) ==
    IF b \notin BucketFiles THEN <<>> ELSE ExpectedOfBucket(b) \o ExpectedFrom(b + 1)

IsLeftOrSingle(e) == e.seq.mate # 2

IsRight(e) == e.seq.mate = 2

AsFastq(es) == [k \in 1..Len(es) |-> [id |-> es[k].id, seq |-> es[k].seq]]

AsSam(es) == <<SamHeader>> \o [k \in 1..Len(es) |-> es[k].record]

\* C2: for given inputs, seed, seed_spacing, num_threads and chunk_size the
\* FASTQ and SAM outputs are one fixed value, a function of these inputs,
\* whichever order the workers ran in within the parallel rounds.
C2_OutputsDetermined ==
    pc = "done" =>
        /\ outSeqsLeft = AsFastq(SelectSeq(ExpectedFrom(0), IsLeftOrSingle))
        /\ outSeqsRight = AsFastq(SelectSeq(ExpectedFrom(0), IsRight))
        /\ outBamStream = IF options.outFileNameSam
                          THEN AsSam(ExpectedFrom(0))
                          ELSE <<>>

\* C2 witness: a finished run with SAM output in which both workers of a
\* round had ordinals to simulate, and one worker simulated in two rounds.
C2_Witness ==
    /\ pc = "done"
    /\ options.numThreads = 2
    /\ options.outFileNameSam
    /\ Len(outBamStream) > 3
    /\ \E e1 \in 1..Len(loadLog), e2 \in 1..Len(loadLog), e3 \in 1..Len(loadLog) :
         /\ loadLog[e1].tID = 0
         /\ loadLog[e2].tID = 1
         /\ loadLog[e1].round = loadLog[e2].round
         /\ <<loadLog[e1].rID, loadLog[e1].hID>> = <<loadLog[e2].rID, loadLog[e2].hID>>
         /\ loadLog[e3].tID = 0
         /\ loadLog[e3].round = 2

\* The paired outputs read alternately, left first.
Interleave(l, r) ==
    [k \in 1..(Len(l) + Len(r)) |->
        IF k % 2 = 1 THEN l[(k + 1) \div 2] ELSE r[k \div 2]]

JoinedFastq ==
    IF options.simulateMatePairs
    THEN Interleave(outSeqsLeft, outSeqsRight)
    ELSE outSeqsLeft

JoinedSam == SelectSeq(outBamStream, IsAlignmentRecord)

LexLeq(a, b) == a[1] < b[1] \/ (a[1] = b[1] /\ a[2] <= b[2])

FastqOfBucket(stream, r, h) ==
    LET InBucket(x) == x.seq.rID = r /\ x.seq.hID = h
    IN  SelectSeq(stream, InBucket)

SamOfBucket(stream, r, h) ==
    LET InBucket(x) == x.kind = "record" /\ x.read.rID = r /\ x.read.hID = h
    IN  SelectSeq(stream, InBucket)

RECURSIVE SumSeq(_)
SumSeq(q) == IF q = <<>> THEN 0 ELSE Head(q) + SumSeq(Tail(q))

\* C4: after the simulate phase one fragment count has been reported per
\* bucket, and the reported counts sum to num_fragments.
C4_CountsSumToNumFragments ==
    AfterSimulate =>
        /\ Len(reported) = seqCount * haplotypeCount
        /\ SumSeq(reported) = options.numFragments

\* C4 witness: a finished run of three ordinals spread over two buckets.
C4_Witness ==
    /\ pc = "done"
    /\ options.numFragments = 3
    /\ \E b1 \in 1..Len(reported), b2 \in 1..Len(reported) :
         /\ b1 # b2
         /\ reported[b1] = 2
         /\ reported[b2] = 1

\* The workers whose buffers hold the reads of the fragment ids they hold.
Simulated == IF pc = "parallel" THEN finished ELSE {}

\* The fragment id of read k of a worker's buffers.
FragIdOf(th, k) ==
    IF options.simulateMatePairs
    THEN th.fragmentIds[(k + 1) \div 2]
    ELSE th.fragmentIds[k]

\* The mate suffix the FASTQ id of read k carries.
MateSuffix(k) ==
    IF ~options.simulateMatePairs THEN ""
    ELSE IF k % 2 = 1 THEN "/1" ELSE "/2"

\* C17: the id of a FASTQ read is prefix + (frag_id + 1) in single-end
\* mode, with "/1" appended for the left and "/2" for the right mate in
\* paired-end mode; when embedding is requested a single space and the
\* simulation info of the read follow, otherwise nothing follows.
C17_FastqIds ==
    \A tID \in Simulated :
        /\ Len(threads[tID].ids) = ReadCount(Len(threads[tID].fragmentIds))
        /\ \A k \in 1..Len(threads[tID].ids) :
             /\ threads[tID].ids[k].prefix = readNamePrefix
             /\ threads[tID].ids[k].number = FragIdOf(threads[tID], k) + 1
             /\ threads[tID].ids[k].suffix = MateSuffix(k)
             /\ IF options.embedReadInfo
                THEN /\ Len(threads[tID].ids[k].embedded) = 2
                     /\ threads[tID].ids[k].embedded[1] = " "
                     /\ threads[tID].ids[k].embedded[2].drawn
                          = threads[tID].infos[k].drawn
                ELSE threads[tID].ids[k].embedded = <<>>

\* C17 witness: a worker has simulated both mates of two fragments with
\* embedding requested.
C17_Witness ==
    \E tID \in Simulated :
        /\ options.simulateMatePairs
        /\ options.embedReadInfo
        /\ Len(threads[tID].fragmentIds) = 2
        /\ Len(threads[tID].ids) = 4
        /\ threads[tID].ids[4].suffix = "/2"
        /\ Len(threads[tID].ids[4].embedded) = 2

\* The FASTQ id of a read computed with embedding switched off.
WithoutEmbedding(id) == [id EXCEPT !.embedded = <<>>]

\* C18 as stated: the query name of every alignment record equals the id
\* of the corresponding FASTQ read computed with embedding switched off,
\* mate suffix included.
C18_QNameIsFastqId ==
    \A tID \in Simulated :
        options.outFileNameSam =>
            \A k \in 1..Len(threads[tID].alignmentRecords) :
                threads[tID].alignmentRecords[k].qName
                    = WithoutEmbedding(threads[tID].ids[k])

\* C18 amended: the query name of every alignment record is prefix +
\* (frag_id + 1) in single-end and in paired-end mode alike, without a
\* mate suffix and without the simulation info, also when embedding is
\* requested.
C18_QNameIsFragmentName ==
    \A tID \in Simulated :
        options.outFileNameSam =>
            /\ Len(threads[tID].alignmentRecords)
                 = ReadCount(Len(threads[tID].fragmentIds))
            /\ \A k \in 1..Len(threads[tID].alignmentRecords) :
                 threads[tID].alignmentRecords[k].qName
                     = [prefix |-> readNamePrefix,
                        number |-> FragIdOf(threads[tID], k) + 1,
                        suffix |-> "",
                        embedded |-> <<>>]

\* C18 witness: a worker has built the records of a pair with embedding
\* requested; the right record is named without "/2" and without the info
\* its FASTQ id carries.
C18_Witness ==
    \E tID \in Simulated :
        /\ options.simulateMatePairs
        /\ options.embedReadInfo
        /\ options.outFileNameSam
        /\ Len(threads[tID].alignmentRecords) >= 2
        /\ threads[tID].ids[2].suffix = "/2"
        /\ threads[tID].ids[2].embedded # <<>>
        /\ threads[tID].alignmentRecords[2].qName.suffix = ""
        /\ threads[tID].alignmentRecords[2].qName.embedded = <<>>

\* C20: in paired-end mode the join writes every left mate ("/1") to the
\* left output and every right mate ("/2") to the right output, both hold
\* one record per fragment, and the k-th records of the two outputs are the
\* mates of the same fragment.
C20_MatesInCorrespondingLines ==
    (pc = "done" /\ options.simulateMatePairs) =>
        /\ Len(outSeqsLeft) = options.numFragments
        /\ Len(outSeqsRight) = Len(outSeqsLeft)
        /\ \A k \in 1..Len(outSeqsLeft) :
             /\ outSeqsLeft[k].seq.mate = 1
             /\ outSeqsLeft[k].id.suffix = "/1"
        /\ \A k \in 1..Len(outSeqsRight) :
             /\ outSeqsRight[k].seq.mate = 2
             /\ outSeqsRight[k].id.suffix = "/2"
             /\ outSeqsRight[k].id.number = outSeqsLeft[k].id.number
             /\ outSeqsRight[k].seq.fragment = outSeqsLeft[k].seq.fragment
             /\ outSeqsRight[k].seq.rID = outSeqsLeft[k].seq.rID
             /\ outSeqsRight[k].seq.hID = outSeqsLeft[k].seq.hID
        /\ {outSeqsLeft[k].id.number : k \in 1..Len(outSeqsLeft)}
             = 1..options.numFragments

\* C20 witness: the pairs of three fragments of two buckets, simulated by
\* two workers, are joined.
C20_Witness ==
    /\ pc = "done"
    /\ options.simulateMatePairs
    /\ options.numThreads = 2
    /\ Len(outSeqsLeft) = 3
    /\ Len(outSeqsRight) = 3
    /\ outSeqsLeft[1].seq.rID # outSeqsLeft[3].seq.rID
    /\ outSeqsRight[2].id.number # outSeqsRight[3].id.number

\* The workers of the team.
Team == 0..(options.numThreads - 1)

\* A step that appends to a spill file.
SpillWritten ==
    fragmentFiles' # fragmentFiles \/ alignmentFiles' # alignmentFiles

\* C25: in every round each of the num_threads workers executes run exactly
\* once, on the chunk loaded for it in that round, and all runs have
\* returned before any worker's reads or alignment records of the round
\* are written to the spill files.
C25_ForkJoinPerRound ==
    [][/\ pc = "load" /\ pc' = "parallel" => finished' = {}
       /\ pc = "parallel" /\ pc' = "parallel" =>
            \E t \in Team \ finished :
                /\ finished' = finished \cup {t}
                /\ \A u \in Team \ {t} : threads'[u] = threads[u]
       /\ (SpillWritten \/ (pc = "parallel" /\ pc' # "parallel")) =>
            /\ pc = "parallel"
            /\ finished = Team
            /\ threads' = threads
            /\ \A t \in Team :
                 /\ Len(threads[t].ids) = ReadCount(Len(threads[t].fragmentIds))
                 /\ \A k \in 1..Len(threads[t].ids) :
                      threads[t].ids[k].number = FragIdOf(threads[t], k) + 1
      ]_vars

\* C25 witness: both workers of a team of two have run on a chunk of their
\* own and the round has been written.
C25_Witness ==
    /\ pc = "load"
    /\ options.numThreads = 2
    /\ round = 1
    /\ finished = {0, 1}
    /\ Len(threads[0].ids) > 0
    /\ Len(threads[1].ids) > 0
    /\ Len(fragmentFiles[FileIndex(curRID, curHID)])
         = Len(threads[0].ids) + Len(threads[1].ids)

\* The state of worker u with its generator advanced by d numbers.
Disturbed(u, d) == [threads EXCEPT ![u].rng = Advance(@, d)]

BucketDone ==
    /\ nextBucket > 0
    /\ pc \in {"materialize", "join", "joinFastq", "joinSam", "joinRecords",
              "done"}

\* The number of ordinals in the bucket handled last.
BucketSize == Len(fragmentIdFiles[FileIndex(curRID, curHID)])

\* The ordinals one round can load.
RoundSize == options.numThreads * options.chunkSize

\* C27 as stated: a bucket holding k ordinals is processed in exactly
\* floor(k / (num_threads * chunk_size)) + 1 rounds.
C27_RoundsFloor ==
    BucketDone => round = (BucketSize \div RoundSize) + 1

\* C27 amended: the simulate loop of every bucket ends after exactly
\* floor((k + chunk_size - 1) / (num_threads * chunk_size)) + 1 rounds, the
\* first round in which some worker reads zero ordinals (one round more
\* than floor(k / (num_threads * chunk_size)) + 1 when the last worker
\* still reads an ordinal in the round holding the last ordinals), and the
\* simulate phase reaches the join phase.
C27_RoundsAndTermination ==
    /\ [](BucketDone =>
            /\ round = ((BucketSize + options.chunkSize - 1) \div RoundSize) + 1
            /\ doBreak
            /\ \A r \in 1..(round - 1), t \in Team :
                 \E e \in 1..Len(loadLog) :
                     /\ loadLog[e].rID = curRID
                     /\ loadLog[e].hID = curHID
                     /\ loadLog[e].round = r
                     /\ loadLog[e].tID = t)
    /\ <>(pc = "join")

\* C27 witness: a bucket whose last ordinal goes to the last worker of a
\* round has ended after a further, empty round.
C27_Witness ==
    /\ BucketDone
    /\ BucketSize > 0
    /\ round = (BucketSize \div RoundSize) + 2
    /\ options.numThreads = 2

\* The fragment ordinal of a FASTQ record of a spill file.
OrdinalOfRecord(x) == x.id.number - 1

\* C28: within every bucket the fragment ordinals of the records appended
\* to the fragment spill file are strictly increasing from fragment to
\* fragment (the two mates of a pair stand side by side), whatever
\* num_threads and chunk_size are.
C28_SpillOrdinalsAscend ==
    \A b \in DOMAIN fragmentFiles :
        \A i \in 1..Len(fragmentFiles[b]), j \in 1..Len(fragmentFiles[b]) :
            i < j =>
                \/ OrdinalOfRecord(fragmentFiles[b][i])
                     < OrdinalOfRecord(fragmentFiles[b][j])
                \/ /\ options.simulateMatePairs
                   /\ j = i + 1
                   /\ i % 2 = 1
                   /\ OrdinalOfRecord(fragmentFiles[b][i])
                        = OrdinalOfRecord(fragmentFiles[b][j])

\* C28 witness: two workers with chunk size 1 have written the reads of
\* three fragments of one bucket, over two rounds.
C28_Witness ==
    /\ options.numThreads = 2
    /\ options.chunkSize = 1
    /\ \E b \in DOMAIN fragmentFiles :
         /\ Len(fragmentFiles[b]) = ReadCount(3)
         /\ OrdinalOfRecord(fragmentFiles[b][1]) = 0
         /\ OrdinalOfRecord(fragmentFiles[b][ReadCount(3)]) = 2

\* Where the read of mate m of ordinal o stands in the fragment spills.
SpilledAt(o, m) ==
    {bk \in BucketFiles \X (1..(2 * MaxFragments + 2)) :
        /\ bk[2] <= Len(fragmentFiles[bk[1]])
        /\ OrdinalOfRecord(fragmentFiles[bk[1]][bk[2]]) = o
        /\ fragmentFiles[bk[1]][bk[2]].seq.mate = m}

\* The mates a fragment is read as.
MatesPerFragment == IF options.simulateMatePairs THEN {1, 2} ELSE {0}

\* C29: at the end of the simulate phase the fragment spill files hold,
\* over all buckets, exactly one read (or one left and one right read) per
\* ordinal in 0..num_fragments-1 and nothing else.
C29_OneReadPerOrdinal ==
    AfterSimulate =>
        /\ \A o \in Ordinals, m \in MatesPerFragment :
             Cardinality(SpilledAt(o, m)) = 1
        /\ SumSeq([b \in 1..Cardinality(BucketFiles) |->
                      Len(fragmentFiles[b - 1])])
             = ReadCount(options.numFragments)

\* C29 witness: the simulate phase has ended after a round in which
\* worker 1, which ran on an ordinal in round 1 of the bucket, loaded none.
C29_Witness ==
    /\ AfterSimulate
    /\ options.numThreads = 2
    /\ options.numFragments = 3
    /\ \E e1 \in 1..Len(loadLog), e2 \in 1..Len(loadLog) :
         /\ loadLog[e1].tID = 1
         /\ loadLog[e1].round = 1
         /\ loadLog[e2].tID = 0
         /\ loadLog[e2].round = 2
         /\ loadLog[e2].rID = loadLog[e1].rID
         /\ loadLog[e2].hID = loadLog[e1].hID
         /\ \A e \in 1..Len(loadLog) :
              (loadLog[e].rID = loadLog[e1].rID
                 /\ loadLog[e].hID = loadLog[e1].hID
                 /\ loadLog[e].round = 2) => loadLog[e].tID = 0

\* The alignment records of a spill file, without the header.
SpilledRecords(b) == SelectSeq(alignmentFiles[b], IsAlignmentRecord)

\* C30: when alignments are requested, in every bucket the k-th record of
\* the fragment spill and the k-th record of the alignment spill describe
\* the same read (the same ordinal, the same mate), and both spills hold
\* the same number of records.
C30_SpillsCorrespond ==
    options.outFileNameSam =>
        \A b \in DOMAIN fragmentFiles :
            /\ Len(SpilledRecords(b)) = Len(fragmentFiles[b])
            /\ \A k \in 1..Len(fragmentFiles[b]) :
                 /\ SpilledRecords(b)[k].qName.number
                      = fragmentFiles[b][k].id.number
                 /\ SpilledRecords(b)[k].read.mate
                      = fragmentFiles[b][k].seq.mate
                 /\ SpilledRecords(b)[k].read = fragmentFiles[b][k].seq

\* C30 witness: with alignments requested, two workers have written the
\* pairs of two fragments of one bucket to both spills.
C30_Witness ==
    /\ options.outFileNameSam
    /\ options.simulateMatePairs
    /\ options.numThreads = 2
    /\ \E b \in DOMAIN fragmentFiles :
         /\ Len(fragmentFiles[b]) >= 4
         /\ Len(SpilledRecords(b)) >= 4
         /\ fragmentFiles[b][4].seq.mate = 2
         /\ fragmentFiles[b][4].seq.drawn.seed # fragmentFiles[b][1].seq.drawn.seed

\* A step that reads an ordinal back from a bucket file.
OrdinalReadBack == loadLog' # loadLog

\* A step that reads records from a fragment / an alignment spill file:
\* the offset of a file moves on while no file is written.
FragmentSpillRead ==
    /\ fragmentFiles' = fragmentFiles
    /\ \E b \in BucketFiles : fragmentPos'[b] > fragmentPos[b]

AlignmentSpillRead ==
    /\ alignmentFiles' = alignmentFiles
    /\ \E b \in BucketFiles : alignmentPos'[b] > alignmentPos[b]

\* Every pair has been yielded by the materializer and has left its
\* simulate loop, and the materializer has reported the end.
SimulateOver ==
    /\ nextBucket = seqCount * haplotypeCount
    /\ Len(reported) = nextBucket
    /\ pc \notin {"distribute", "materialize", "load", "parallel"}

\* C33: the three phases run strictly in order.  An ordinal is read back
\* from a bucket file only when all num_fragments ordinals have been
\* written and the id splitter has been reset, the first read of a bucket
\* starting at offset 0; a record is read from a fragment or an alignment
\* spill file only when every pair of the materializer has finished its
\* simulate loop and the files of that splitter have been rewound.
C33_PhasesInOrder ==
    [][ /\ OrdinalReadBack =>
              /\ nextOrdinal = options.numFragments
              /\ \A o \in Ordinals : Cardinality(WrittenTo(o)) = 1
              /\ pc # "distribute"
              /\ round = 0 => fragmentIdPos[FileIndex(curRID, curHID)] = 0
        /\ FragmentSpillRead =>
              /\ SimulateOver
              /\ \A b \in BucketFiles : fragmentPos[b] = 0
        /\ AlignmentSpillRead =>
              /\ SimulateOver
              /\ \A b \in BucketFiles : alignmentPos[b] = 0
      ]_vars

\* C33 witness: a finished run with alignments in which the ordinals of
\* two buckets were read back and the records of both spills were joined.
C33_Witness ==
    /\ pc = "done"
    /\ options.outFileNameSam
    /\ options.numFragments = MaxFragments
    /\ Len(loadLog) = options.numFragments
    /\ Cardinality({b \in BucketFiles : fragmentIdFiles[b] # <<>>}) >= 2
    /\ Len(outSeqsLeft) = options.numFragments
    /\ Len(JoinedSam) >= options.numFragments
    /\ \A b \in BucketFiles :
         /\ fragmentPos[b] = Len(fragmentFiles[b])
         /\ alignmentPos[b] = Len(alignmentFiles[b])

\* The (contig, haplotype) pairs of the run.
Pairs == Contigs \X Haplotypes

\* C34: the bucket the distribute phase writes an ordinal to for a picked
\* (contig, haplotype) pair is the bucket rID * haplotypeCount + hID the
\* simulate phase reads when the materializer yields that pair: every
\* ordinal written lies in the file at that index and is loaded under the
\* pair that was picked for it; the index lies in
\* [0, num_contigs * num_haplotypes) and distinct pairs have distinct
\* buckets.
C34_BucketIndexAgrees ==
    /\ \A p \in Pairs :
         /\ toId(p) = FileIndex(p[1], p[2])
         /\ toId(p) >= 0
         /\ toId(p) < seqCount * haplotypeCount
    /\ \A p \in Pairs, q \in Pairs : p # q => toId(p) # toId(q)
    /\ \A o \in Ordinals :
         o < nextOrdinal =>
             \E k \in 1..Len(fragmentIdFiles[
                                FileIndex(rngPicks[o + 1][1],
                                          rngPicks[o + 1][2])]) :
                 fragmentIdFiles[FileIndex(rngPicks[o + 1][1],
                                           rngPicks[o + 1][2])][k] = o
    /\ \A e \in 1..Len(loadLog) :
         <<loadLog[e].rID, loadLog[e].hID>> = rngPicks[loadLog[e].ordinal + 1]

\* C34 witness: the simulate phase is over and has loaded an ordinal picked
\* for contig 0, haplotype 1 from bucket 1 and an ordinal picked for
\* contig 1, haplotype 0 from bucket 2.
C34_Witness ==
    /\ AfterSimulate
    /\ fragmentIdFiles[1] # <<>>
    /\ fragmentIdFiles[2] # <<>>
    /\ \E e \in 1..Len(loadLog) :
         /\ loadLog[e].rID = 0 /\ loadLog[e].hID = 1
         /\ loadLog[e].ordinal = fragmentIdFiles[1][1]
    /\ \E e \in 1..Len(loadLog) :
         /\ loadLog[e].rID = 1 /\ loadLog[e].hID = 0
         /\ loadLog[e].ordinal = fragmentIdFiles[2][1]

\* ------------------------------------------------------------------------
\* The NM tag: _alignAndSetCigar lines 229-230 on alignments with long gaps
\* ------------------------------------------------------------------------

MaxMismatches == 2

MaxGapLength == 1000

\* A run of equal columns of an alignment: "M" match, "X" mismatch,
\* "D" gap in the read, "I" gap in the reference infix.
AlignmentRun(op, n) == [operation |-> op, count |-> n]

IsRun(run) == run.count > 0

\* The optimal alignment of a read whose first and last base match the ends
\* of the reference infix, with x mismatches and one gap of g bases between.
OneGapAlignment(x, op, g) ==
    SelectSeq(<<AlignmentRun("M", 1), AlignmentRun("X", x),
                AlignmentRun(op, g), AlignmentRun("M", 1)>>, IsRun)

\* The score of one run under sScheme (line 223): a gap run pays one gap open
\* and gap extend for each further column.
RunScore(run) ==
    IF run.operation = "M" THEN run.count * ScoreMatch
    ELSE IF run.operation = "X" THEN run.count * ScoreMismatch
    ELSE ScoreGapOpen + (run.count - 1) * ScoreGapExtend

RECURSIVE RunsScore(_, _)
\* The value globalAlignment returns for the alignment runs[k..].
RunsScore(runs, k) ==
    IF k > Len(runs) THEN 0 ELSE RunScore(runs[k]) + RunsScore(runs, k + 1)

InitNM ==
    /\ IdleMD
    /\ IdleBuild
    /\ IdlePipe
    /\ IdleRun
    /\ nmPc = "aligned"
    /\ \E x \in 0..MaxMismatches, op \in {"D", "I"}, g \in 0..MaxGapLength :
         nmAlignment = OneGapAlignment(x, op, g)
    /\ nmScore = 0
    /\ nmEditDistance = 0

\* line 229
ReturnScore ==
    /\ nmPc = "aligned"
    /\ nmScore' = RunsScore(nmAlignment, 1)
    /\ nmPc' = "scored"
    /\ UNCHANGED <<nmAlignment, nmEditDistance>>
    /\ UNCHANGED <<varsMD, varsBuild, varsPipe, varsRun>>

\* line 230
ConvertScore ==
    /\ nmPc = "scored"
    /\ nmEditDistance' = ScoreToEditDistance(nmScore)
    /\ nmPc' = "converted"
    /\ UNCHANGED <<nmAlignment, nmScore>>
    /\ UNCHANGED <<varsMD, varsBuild, varsPipe, varsRun>>

NextNM == ReturnScore \/ ConvertScore

SpecNM == InitNM /\ [][NextNM]_vars

RECURSIVE EditCount(_, _)
\* The mismatched, inserted and deleted bases of the alignment runs[k..].
EditCount(runs, k) ==
    IF k > Len(runs) THEN 0
    ELSE (IF runs[k].operation = "M" THEN 0 ELSE runs[k].count)
           + EditCount(runs, k + 1)

\* C9: the NM value, the alignment score divided by -1000, equals the
\* number of mismatched, inserted and deleted bases of the alignment.
C9_NMIsEditDistance ==
    nmPc = "converted" => nmEditDistance = EditCount(nmAlignment, 1)

\* ------------------------------------------------------------------------
\* SpecRun: the rounds of one bucket (lines 819-866) with one worker
\* ------------------------------------------------------------------------

\* options.fragSamplerOptions: the smallest fragment the sampler draws.
MinFragmentSize == 2

\* length(seq) of the contigs the rounds run on.
ContigLengths == (MinFragmentSize - 1)..(MinFragmentSize + 1)

\* The ordinals a bucket file can hold: ascending, as distribute wrote them.
BucketOrdinals ==
    {f \in UNION {[1..n -> 0..(MaxFragments - 1)] : n \in 0..MaxFragments} :
        \A i \in 1..Len(f), j \in 1..Len(f) : i < j => f[i] < f[j]}

\* The options of the rounds: one worker.
RunOptionSets == {o \in OptionSets : o.numThreads = 1 /\ o.numFragments = MaxFragments}

\* FragmentSampler::generateMany on a contig of the given length: no
\* fragment when the contig is shorter than the smallest fragment.
generateManyOnContig(rng, r, contigLength, n) ==
    IF contigLength < MinFragmentSize THEN <<>> ELSE generateMany(rng, r, n)

\* What a read of fragments[i] past the end of the string can yield.
PastEndFragments == {[rID |-> g, drawn |-> Rng(g)] : g \in {-1, 1}}

InitRun ==
    /\ IdleMD
    /\ IdleBuild
    /\ IdleNM
    /\ options \in RunOptionSets
    /\ rngPicks = <<>>
    /\ pc = "off"
    /\ nextOrdinal = 0
    /\ fragmentIdFiles = <<>>
    /\ fragmentIdPos = <<>>
    /\ nextBucket = 0
    /\ curRID = 0
    /\ curHID = 0
    /\ contigFragmentCount = 0
    /\ doBreak = FALSE
    /\ threads = <<>>
    /\ finished = {}
    /\ fragmentFiles = <<>>
    /\ alignmentFiles = <<>>
    /\ fragmentPos = <<>>
    /\ alignmentPos = <<>>
    /\ outSeqsLeft = <<>>
    /\ outSeqsRight = <<>>
    /\ outBamStream = <<>>
    /\ reported = <<>>
    /\ loadLog = <<>>
    /\ round = 0
    /\ runPc = "materialized"
    /\ runContigLength \in ContigLengths
    /\ runFile \in BucketOrdinals
    /\ runThread = ThreadInit(ThreadSeed(options, 0))
    /\ runBreak = FALSE
    /\ runFragmentFile = <<>>
    /\ runPastEnd = FALSE
    /\ runSpill = "open"                       \* lines 943, 994, 997
    /\ runError = "none"
    /\ runOutput = <<>>

\* throw MasonIOException(msg): neither _simulateReads, run nor main has a
\* handler, so the exception leaves main and the process terminates; whether
\* the stack is unwound first, and with it the destructor of app and of
\* its IdSplitters run, is left to the implementation.
Throw(msg) ==
    /\ runError' = msg
    /\ runPc' = "terminated"
    /\ \E unwound \in BOOLEAN :
         runSpill' = IF unwound THEN "released" ELSE runSpill

\* lines 816-817: readSequence of the reference of the bucket
RunReadSequence ==
    /\ runPc = "materialized"
    /\ \/ /\ runPc' = "load"
          /\ UNCHANGED <<runSpill, runError>>
       \/ Throw("Could not load reference sequence.")
    /\ UNCHANGED <<runContigLength, runFile, runThread, runBreak,
                   runFragmentFile, runPastEnd, runOutput>>
    /\ UNCHANGED <<varsMD, varsBuild, varsNM, varsPipe>>

\* lines 822-835 for tID 0, which read got
RunLoaded(got) ==
    /\ runThread' = [runThread EXCEPT !.fragmentIds = got]
    /\ runFile' = SubSeq(runFile, Len(got) + 1, Len(runFile))
    /\ runBreak' = (Len(got) = 0)
    /\ runPc' = "parallel"
    /\ UNCHANGED <<runContigLength, runFragmentFile, runPastEnd, runSpill,
                   runError, runOutput>>
    /\ UNCHANGED <<varsMD, varsBuild, varsNM, varsPipe>>

RunLoad ==
    /\ runPc = "load"
    /\ RunLoaded(Fread(runFile, 0, options.chunkSize))

\* ReadSimulatorThread::run, lines 686-710, once the sampler has left frags
\* in the fragment buffer.  The loops of lines 633 and 668 run over
\* fragmentIds and index fragments with the same i.
RunSampled(frags) ==
    \/ /\ Len(frags) >= Len(runThread.fragmentIds)
       /\ runThread' = ThreadRunOn(runThread, frags,
                                   Advance(runThread.rng, Len(frags)),
                                   curRID, curHID)
       /\ runPc' = "write"
       /\ UNCHANGED runPastEnd
    \/ /\ Len(frags) < Len(runThread.fragmentIds)
       /\ \E g \in PastEndFragments :
            runThread' =
                [ThreadRunOn(runThread,
                             [i \in 1..Len(runThread.fragmentIds) |-> g],
                             Advance(runThread.rng, Len(frags)),
                             curRID, curHID)
                   EXCEPT !.fragments = frags]
       /\ runPc' = "write"
       /\ runPastEnd' = TRUE
    \/ /\ Len(frags) < Len(runThread.fragmentIds)
       /\ runThread' = [runThread EXCEPT !.fragments = frags]
       /\ runPc' = "crashed"
       /\ runPastEnd' = TRUE

\* lines 838-843 with one worker
RunChunk ==
    /\ runPc = "parallel"
    /\ RunSampled(generateManyOnContig(runThread.rng, curRID, runContigLength,
                                       Len(runThread.fragmentIds)))
    /\ UNCHANGED <<runContigLength, runFile, runBreak, runFragmentFile,
                   runSpill, runError, runOutput>>
    /\ UNCHANGED <<varsMD, varsBuild, varsNM, varsPipe>>

\* lines 846-850 and the test of line 858; write2 may fail
RunWrite ==
    /\ runPc = "write"
    /\ \/ /\ runFragmentFile' = runFragmentFile \o FastqRecords(runThread)
          /\ runPc' = IF runBreak THEN "end" ELSE "load"
          /\ UNCHANGED <<runSpill, runError>>
       \/ /\ Throw("Could not write out temporary sequence.")
          /\ UNCHANGED runFragmentFile
    /\ UNCHANGED <<runContigLength, runFile, runThread, runBreak, runPastEnd,
                   runOutput>>
    /\ UNCHANGED <<varsMD, varsBuild, varsNM, varsPipe>>

\* _simulateReadsJoin, lines 870-893; writeRecord may fail
RunJoin ==
    /\ runPc = "end"
    /\ \/ /\ runOutput' = runFragmentFile
          /\ runPc' = "joined"
          /\ UNCHANGED <<runSpill, runError>>
       \/ /\ Throw("Problem joining sequences.")
          /\ UNCHANGED runOutput
    /\ UNCHANGED <<runContigLength, runFile, runThread, runBreak,
                   runFragmentFile, runPastEnd>>
    /\ UNCHANGED <<varsMD, varsBuild, varsNM, varsPipe>>

\* run returns 0 (line 797) and main returns it (line 1206): app goes out
\* of scope and its IdSplitters release their files.
RunReturn ==
    /\ runPc = "joined"
    /\ runSpill' = "released"
    /\ runPc' = "exited"
    /\ UNCHANGED <<runContigLength, runFile, runThread, runBreak,
                   runFragmentFile, runPastEnd, runError, runOutput>>
    /\ UNCHANGED <<varsMD, varsBuild, varsNM, varsPipe>>

NextRun ==
    RunReadSequence \/ RunLoad \/ RunChunk \/ RunWrite \/ RunJoin \/ RunReturn

SpecRun == InitRun /\ [][NextRun]_vars

\* C19: when the contig is shorter than the smallest fragment, so that the
\* sampler leaves no fragment for a chunk of k > 0 ordinals, the worker's
\* run reads no fragment past the end of the fragment buffer, produces no
\* read for the chunk, and the rounds go on.
C19_ShortContigNoReads ==
    (/\ runPc \in {"write", "crashed"}
     /\ runContigLength < MinFragmentSize
     /\ Len(runThread.fragmentIds) > 0) =>
        /\ ~runPastEnd
        /\ runPc = "write"
        /\ Len(runThread.ids) = 0
        /\ Len(runThread.seqs) = 0

\* C21: the bucket spill files are released when the join phase exits
\* normally and on every error path: after a fatal error raised in the
\* simulate or join phase no spill file stays open or undeleted when the
\* process ends.
C21_SpillsReleased ==
    runPc \in {"exited", "terminated"} => runSpill = "released"

====
